---- MODULE Spec2Model ----
(***************************************************************************)
(* Model of the mail service layer (src/services/mailService.ts):          *)
(* smartFetch (direct-then-proxy fetch), getAvailableDomains (two-strategy *)
(* catalog query) and createRealAccount (domain resolution, creation       *)
(* retry loop, token exchange, account metadata).                          *)
(*                                                                         *)
(* Every `await fetch(...)` is one action: it issues the request, counts   *)
(* it in `calls`, and draws the outcome (a rejection or a Response) from    *)
(* the environment.  The code between two awaits runs in the action of the *)
(* await that resumes it.  Date.now() is the wall clock: each read draws   *)
(* a value from Now.                                                       *)
(***************************************************************************)
EXTENDS Integers, Sequences, FiniteSets, TLC

\* ---------------------------------------------------------------- bounds
MaxCatalog == 2     \* longest 'hydra:member' array the environment answers
MaxClock == 1       \* largest value Date.now() returns
MaxRand == 2        \* number of distinct values randomString can produce
MaxMessages == 2    \* longest 'hydra:member' array of a /messages answer
MaxCreates == 1     \* handleCreateSession invocations (the first is the mount effect)
MaxLoads == 2       \* loadDomains invocations
MaxUpgrades == 1    \* handlePaymentAndCreate invocations that pass validation
MaxPolls == 2       \* pollEmails invocations
MaxSelects == 2     \* clicks on an entry of the message list
MaxRenews == 1      \* clicks on the new-address button
MaxExtends == 1     \* extendSession invocations

\* ------------------------------------------------------- program constants
DomainRetries == 3          \* for(let k=0; k<3; k++)
RetryDelayMs == 500         \* setTimeout(r, 500)
CustomMaxRetries == 1       \* isCustom ? 1 : 5
RandomMaxRetries == 5
ExpiryMs == 600000          \* 10 * 60 * 1000

Undefined == "undefined"    \* a missing argument / missing JSON property

\* URLs are sequences of one-character strings.
API_BASE ==
  <<"h","t","t","p","s",":","/","/","a","p","i",".","m","a","i","l",".","t","m">>
PROXY_BASE ==
  <<"h","t","t","p","s",":","/","/","c","o","r","s","p","r","o","x","y",".","i","o","/","?">>

Digit(d) == CASE d = 0 -> "0" [] d = 1 -> "1" [] d = 2 -> "2" [] d = 3 -> "3"
              [] d = 4 -> "4" [] d = 5 -> "5" [] d = 6 -> "6" [] d = 7 -> "7"
              [] d = 8 -> "8" [] OTHER -> "9"

RECURSIVE NumStr(_)
\* `${n}` for a non-negative integer: its decimal digits
NumStr(n) == IF n < 10 THEN <<Digit(n)>> ELSE NumStr(n \div 10) \o <<Digit(n % 10)>>

\* characters encodeURIComponent leaves alone among those our URLs use
Unreserved ==
  {"a","b","c","d","e","f","g","h","i","j","k","l","m","n","o","p","q","r","s",
   "t","u","v","w","x","y","z","0","1","2","3","4","5","6","7","8","9",
   "A","B","C","D","E","F","G","H","I","J","K","L","M","N","O","P","Q","R","S",
   "T","U","V","W","X","Y","Z",
   "-","_",".","!","~","*","'","(",")"}

EncodeChar(c) ==
  CASE c \in Unreserved -> <<c>>
    [] c = ":" -> <<"%","3","A">>
    [] c = "/" -> <<"%","2","F">>
    [] c = "?" -> <<"%","3","F">>
    [] c = "=" -> <<"%","3","D">>
    [] c = "&" -> <<"%","2","6">>
    [] c = "@" -> <<"%","4","0">>
    [] OTHER -> <<"%","?","?">>

RECURSIVE encodeURIComponent(_)
encodeURIComponent(url) ==
  IF url = <<>> THEN <<>>
  ELSE EncodeChar(Head(url)) \o encodeURIComponent(Tail(url))

\* the target url pasted into the proxy url without encoding
ProxyUrlRaw(url, now) ==
  PROXY_BASE \o url \o <<"&","_","c","b","=">> \o NumStr(now)

\* `${PROXY_BASE}${targetUrl}${cacheBuster}` with cacheBuster = `&_cb=${Date.now()}`
ProxyUrl(url, now) ==
  PROXY_BASE \o encodeURIComponent(url) \o <<"&","_","c","b","=">> \o NumStr(now)

\* `${API_BASE}/domains?page=1&itemsPerPage=100&_t=${Date.now()}`
DomainsUrlA(now) ==
  API_BASE \o <<"/","d","o","m","a","i","n","s","?","p","a","g","e","=","1","&",
                "i","t","e","m","s","P","e","r","P","a","g","e","=","1","0","0",
                "&","_","t","=">> \o NumStr(now)
\* `${API_BASE}/domains?_t=${Date.now()}`
DomainsUrlB(now) ==
  API_BASE \o <<"/","d","o","m","a","i","n","s","?","_","t","=">> \o NumStr(now)
AccountsUrl == API_BASE \o <<"/","a","c","c","o","u","n","t","s">>
TokenUrl == API_BASE \o <<"/","t","o","k","e","n">>
MessagesUrl ==
  API_BASE \o <<"/", "m", "e", "s", "s", "a", "g", "e", "s", "?", "p", "a", "g", "e", "=", "1">>
\* `${API_BASE}/messages/${messageId}`
IdChars(id) == CASE id = "m1" -> <<"m", "1">> [] id = "m2" -> <<"m", "2">>
MessageUrl(id) ==
  API_BASE \o <<"/", "m", "e", "s", "s", "a", "g", "e", "s", "/">> \o IdChars(id)
MeUrl == API_BASE \o <<"/","m","e">>

\* ------------------------------------------------------------ environment
Statuses == {200, 403, 422, 429, 500}
\* every response taken as a success
OkAlways(res) == TRUE

Ok(res) == res.status >= 200 /\ res.status <= 299        \* Response.ok

DomainNames == {"a.com", "b.org"}
\* types.ts Domain
Domain == [domain : DomainNames, isActive : BOOLEAN, isPrivate : {FALSE}]

RECURSIVE SeqsUpTo(_, _)
SeqsUpTo(S, n) ==
  IF n = 0 THEN {<<>>}
  ELSE LET shorter == SeqsUpTo(S, n - 1)
       IN shorter \cup {Append(s, e) : s \in {t \in shorter : Len(t) = n - 1}, e \in S}

\* What res.json() of a response can be.  kind:
\*   "unparsable"  json() rejects (SyntaxError)
\*   "null"        the JSON value null (any property read throws TypeError)
\*   "object"      a JSON object; memberKind / member describe its
\*                 'hydra:member' property: "missing", "notarray" (a value
\*                 without .filter), "nullentry" (an array holding a null, on
\*                 which d.isActive throws) or "array" (an array of Domain);
\*                 token and id are its properties of those names
\*   "unreadable"  the body stream fails: text() and json() reject (TypeError)
\*   html / text   the properties of those names of a message resource: html is
\*                 missing, an array of strings or a string
NoHtml == [kind |-> "missing", parts |-> <<>>]
Body(k, mk, m, t, i) ==
  [kind |-> k, memberKind |-> mk, member |-> m, token |-> t, id |-> i,
   html |-> NoHtml, text |-> ""]
NoBody == Body("unparsable", "missing", <<>>, Undefined, Undefined)
NullBody == Body("null", "missing", <<>>, Undefined, Undefined)
PlainObject == Body("object", "missing", <<>>, Undefined, Undefined)
Unreadable == Body("unreadable", "missing", <<>>, Undefined, Undefined)

Tokens == {"tok"}
AccountIds == {"acc"}

CatalogBodies ==
  {NoBody, NullBody, PlainObject}
    \cup {Body("object", mk, <<>>, Undefined, Undefined) : mk \in {"notarray", "nullentry"}}
    \cup {Body("object", "array", m, Undefined, Undefined) : m \in SeqsUpTo(Domain, MaxCatalog)}

\* an entry of the 'hydra:member' of a /messages answer.  from.present is
\* FALSE when the entry has no `from`; from.name is "" and from.address is
\* NoAddress when that property is missing
NoAddress == [user |-> Undefined, domain |-> Undefined]
MsgIds == {"m1", "m2"}
MsgFroms ==
  {[present |-> FALSE, name |-> "", address |-> NoAddress],
   [present |-> TRUE, name |-> "", address |-> NoAddress],
   [present |-> TRUE, name |-> "", address |-> [user |-> "bob", domain |-> "a.com"]],
   [present |-> TRUE, name |-> "Bob", address |-> [user |-> "bob", domain |-> "a.com"]]}
RawMessage ==
  [id : MsgIds, from : MsgFroms, subject : {"s"}, intro : {"", "hi"},
   createdAt : {0}, seen : {FALSE}]
MessageBodies ==
  {NoBody, NullBody, PlainObject}
    \cup {Body("object", mk, <<>>, Undefined, Undefined) : mk \in {"notarray", "nullentry"}}
    \cup {Body("object", "array", m, Undefined, Undefined) :
            m \in SeqsUpTo(RawMessage, MaxMessages)}

\* the body of a message resource (GET /messages/{id})
HtmlParts == {"a", "b"}
HtmlValues ==
  {NoHtml}
    \cup {[kind |-> "array", parts |-> ps] : ps \in SeqsUpTo(HtmlParts, 2)}
    \cup {[kind |-> "string", parts |-> <<p>>] : p \in {"", "a"}}
DetailBody(h, t) == [PlainObject EXCEPT !.html = h, !.text = t]
DetailBodies ==
  {NoBody, NullBody} \cup {DetailBody(h, t) : h \in HtmlValues, t \in {"", "txt"}}

Endpoints ==
  {"domainsA", "domainsB", "accounts", "token", "me", "messages", "message", "delete"}

\* bodies a response of endpoint ep with the given status can carry; a body the
\* code never reads is a single value
Bodies(ep, status) ==
  CASE ep \in {"domainsA", "domainsB"} ->
         IF status >= 200 /\ status <= 299 THEN CatalogBodies ELSE {NoBody}
    [] ep = "token" ->
         IF status >= 200 /\ status <= 299
         THEN {NoBody, NullBody, PlainObject}
                \cup {Body("object", "missing", <<>>, t, Undefined) : t \in Tokens}
         ELSE {NoBody}
    [] ep = "me" ->
         IF status >= 200 /\ status <= 299
         THEN {NoBody, NullBody}
                \cup {Body("object", "missing", <<>>, Undefined, i) : i \in AccountIds}
         ELSE {NoBody, PlainObject}
    [] ep = "messages" ->
         IF status >= 200 /\ status <= 299 THEN MessageBodies ELSE {NoBody}
    [] ep = "message" ->
         \* an error answer is a JSON object describing the error, or no JSON
         IF status >= 200 /\ status <= 299 THEN DetailBodies ELSE {NoBody, PlainObject}
    [] ep = "accounts" ->
         \* read (as text) only when the status is neither 2xx nor 422
         IF (status >= 200 /\ status <= 299) \/ status = 422
         THEN {NoBody}
         ELSE {NoBody, Unreadable}
    [] OTHER -> {NoBody}

\* fetch() rejecting (network error, CORS block) is status 0
Rejected == [status |-> 0, body |-> NoBody]
Outcomes(ep) ==
  {Rejected} \cup UNION {{[status |-> s, body |-> b] : b \in Bodies(ep, s)} : s \in Statuses}
\* outcomes of the direct fetch: smartFetch drops a 403 or 429 response unread
DirectOutcomes(ep) ==
  {o \in Outcomes(ep) : o.status \in {403, 429} => o.body = NoBody}

\* --------------------------------------------------------------- state
VARIABLES
  sf,        \* the smartFetch call in progress
  gd,        \* the getAvailableDomains call in progress
  ca,        \* the createRealAccount call in progress
  calls,     \* per endpoint, the number of direct fetch requests issued so far
             \* (one per smartFetch call on that endpoint)
  proxied,   \* the number of fetch requests issued to the proxy so far
  waited,    \* the milliseconds of setTimeout delay awaited so far
  fm,        \* the fetchMessages call in progress
  md,        \* the fetchMessageDetails call in progress
  dm,        \* the deleteMessage call in progress
  polls,     \* the pollEmails invocations in progress, in the order they started
  fbs,       \* the fetchBody invocations in progress, in the order they started
  cr,        \* the createRealAccount promises the handlers of App await, where
             \* the frames of the service are not followed
  listToken, \* the token the displayed message list was fetched with
  leaked,    \* the tokens written so far to the console or to durable storage
  app,       \* the state of the App component
  modal,     \* the state of the PremiumModal component
  hd,        \* the frames of the UI handlers in progress
  seenActive,\* the domains some catalog answer consumed so far listed as active
  ops        \* the handler invocations started so far

counters == <<calls, proxied, waited>>
msgVars == <<md, dm>>
\* everything but the frames of smartFetch, getAvailableDomains,
\* createRealAccount and fetchMessages, the counters and the console
inboxVars == <<polls, fbs, cr, listToken>>
uiVars == <<app, modal, hd, seenActive, ops, msgVars, inboxVars>>
vars ==
  <<sf, gd, ca, fm, calls, proxied, waited, leaked, app, modal, hd, seenActive, ops,
    md, dm, polls, fbs, cr, listToken>>

Now == 0..MaxClock      \* the values Date.now() can return

NullDate == -1      \* expiresAt: null

\* RequestInit of the calls made by the service
NoPayload == <<>>
GetOpts == [method |-> "GET", auth |-> Undefined, body |-> NoPayload]
PostOpts(address, password) ==
  [method |-> "POST", auth |-> Undefined, body |-> <<address, password>>]
BearerOpts(token) == [method |-> "GET", auth |-> token, body |-> NoPayload]
DeleteOpts(token) == [method |-> "DELETE", auth |-> token, body |-> NoPayload]

\* randomString(length): the strings it can return (MaxRand of them)
RandNames == <<"r1", "r2", "r3", "r4">>
randomString(length) == {RandNames[j] : j \in 1..MaxRand}

\* `${currentUsername}@${domain}`
Address(username, domain) == [user |-> username, domain |-> domain]

NoError == [kind |-> "none", status |-> 0]
Err(kind) == [kind |-> kind, status |-> 0]
NoSession ==
  [emailAddress |-> NoAddress, createdAt |-> NullDate, expiresAt |-> NullDate,
   isPremium |-> FALSE, token |-> Undefined, accountId |-> Undefined,
   password |-> Undefined, isMock |-> FALSE]

\* ------------------------------------------------------------- console
\* A value passed to console.error / console.warn: an Error, a string, or an
\* object holding a session.  Writing it leaks the tokens it contains.
LogValue(err, text, session) == [error |-> err, text |-> text, session |-> session]
LogError(err) == LogValue(err, Undefined, NoSession)
LogText(text) == LogValue(NoError, text, NoSession)
TokensIn(l) == {l.text, l.session.token} \cap Tokens
Writes(l) == leaked' = leaked \cup TokensIn(l)

\* ------------------------------------------------------------ smartFetch
\* pc: "direct" / "proxy" while that fetch is awaited (proxyUrl is the url of
\* the proxy fetch in flight), "ret" / "thrown" once the call has returned res
\* or has thrown; direct is the outcome of the direct fetch, n the number of
\* fetches the call has issued.  reached: the direct fetch rejected although
\* the provider had received and carried out the request (the answer was lost
\* on the way back, or was withheld from the page by the browser's CORS check)
NoOutcome == [status |-> -1, body |-> NoBody]
SfIdle ==
  [pc |-> "idle", url |-> <<>>, ep |-> "none", opts |-> GetOpts,
   proxyUrl |-> <<>>, direct |-> NoOutcome, res |-> NoOutcome, n |-> 0,
   reached |-> FALSE]
\* entering smartFetch(url, options)
SfCall(url, ep, opts) ==
  [pc |-> "direct", url |-> url, ep |-> ep, opts |-> opts,
   proxyUrl |-> <<>>, direct |-> NoOutcome, res |-> NoOutcome, n |-> 0,
   reached |-> FALSE]
SfDone == sf.pc \in {"ret", "thrown"}

\* only 403 treated as blocked
BlockedOnly403(res) == res.status = 403

\* if (res.status === 403 || res.status === 429) throw new Error("Blocked")
Blocked(res) == res.status = 403 \/ res.status = 429

\* a blocked proxied response treated as a failure too
ProxyResultPcStrict(o) == IF o.status \in {0, 403, 429} THEN "thrown" ELSE "ret"

\* return await fetch(proxyUrl, options): a rejection propagates, any
\* response is returned
ProxyResultPc(o) == IF o = Rejected THEN "thrown" ELSE "ret"

\* whether the provider carried out a request whose direct fetch had outcome
\* o: unknown to the page when the fetch rejected.  Followed for the creation
\* request, the one whose repetition the provider answers differently
Carried(ep, o) == IF ep = "accounts" /\ o = Rejected THEN BOOLEAN ELSE {FALSE}

\* the answers to the request re-issued through the proxy: the same
\* options, so the same address; an address the direct request registered is
\* taken, and the provider does not answer 2xx to it again
ProxyOutcomes(f) ==
  {o \in Outcomes(f.ep) : f.reached => (o.status < 200 \/ o.status > 299)}

\* const res = await fetch(url, options), and the code up to the next await
SfDirectCore ==
  /\ sf.pc = "direct"
  /\ \E o \in DirectOutcomes(sf.ep), now \in Now : \E reached \in Carried(sf.ep, o) :
       sf' = IF o = Rejected \/ Blocked(o)
             THEN [sf EXCEPT !.pc = "proxy", !.direct = o, !.n = 1,
                             !.proxyUrl = ProxyUrl(sf.url, now),
                             !.reached = reached]
             ELSE [sf EXCEPT !.pc = "ret", !.direct = o, !.n = 1, !.res = o]
  /\ UNCHANGED <<gd, ca, leaked>>

SfDirect ==
  /\ SfDirectCore
  /\ calls' = [calls EXCEPT ![sf.ep] = @ + 1]
  /\ UNCHANGED <<proxied, waited>>
  /\ UNCHANGED <<fm, uiVars>>

\* return await fetch(proxyUrl, options)
SfProxyCore ==
  /\ sf.pc = "proxy"
  /\ \E o \in ProxyOutcomes(sf) :
       sf' = [sf EXCEPT !.pc = ProxyResultPc(o), !.res = o, !.n = 2, !.proxyUrl = <<>>]
  /\ UNCHANGED <<gd, ca, leaked>>

SfProxy ==
  /\ SfProxyCore
  /\ proxied' = proxied + 1
  /\ UNCHANGED <<calls, waited>>
  /\ UNCHANGED <<fm, uiVars>>

\* --------------------------------------------------- getAvailableDomains
\* pc: "A" / "B" while that strategy's smartFetch is awaited, "done" once the
\* call has returned result.  activeA is Strategy 1's filtered `domains`, tried
\* the number of strategies requested, caught whether the catch block ran;
\* from / src name the strategy and the 'hydra:member' the result was taken from.
GdIdle ==
  [pc |-> "idle", activeA |-> <<>>, tried |-> 0, caught |-> FALSE,
   from |-> "none", src |-> <<>>, result |-> <<>>]
\* entering getAvailableDomains()
GdCallA == [GdIdle EXCEPT !.pc = "A", !.tried = 1]

\* the filter dropped
ActiveOnlyNoFilter(domains) == domains

\* domains.filter(d => d.isActive)
ActiveOnly(domains) == SelectSeq(domains, LAMBDA d : d.isActive)

\* await res.json(), data['hydra:member'] and the filter throw on these bodies
CatalogThrows(body) ==
  \/ body.kind \in {"unparsable", "null"}
  \/ body.memberKind \in {"notarray", "nullentry"}

\* (data['hydra:member'] || []) filtered
CatalogDomains(body) ==
  IF body.memberKind = "array" THEN ActiveOnly(body.member) ELSE <<>>

\* Strategy 1 never returning early
StrategyANeverSuffices(domains) == FALSE

\* if (domains.length > 0) return domains;
StrategyASuffices(domains) == Len(domains) > 0

\* the catch block rethrowing
GdCatchRethrows == "thrown"

\* catch (error) { console.error(...); return []; }
GdCatchPc == "done"

GdReturn(g, from, src, result) ==
  [g EXCEPT !.pc = "done", !.from = from, !.src = src, !.result = result]
GdCaught(g) == [g EXCEPT !.pc = GdCatchPc, !.caught = TRUE, !.result = <<>>]
\* console.error("Failed to fetch domains", error) when this step ran the catch
GdLogs == IF gd'.caught THEN Writes(LogError(Err("FetchDomains"))) ELSE leaked' = leaked

\* resumes after the Strategy 1 smartFetch
GdAfterA ==
  /\ gd.pc = "A"
  /\ SfDone
  /\ IF sf.pc = "thrown" \/ (Ok(sf.res) /\ CatalogThrows(sf.res.body))
     THEN gd' = GdCaught(gd) /\ sf' = SfIdle
     ELSE LET domains == IF Ok(sf.res) THEN CatalogDomains(sf.res.body) ELSE <<>>
              g == [gd EXCEPT !.activeA = domains]
          IN IF Ok(sf.res) /\ StrategyASuffices(domains)
             THEN /\ gd' = GdReturn(g, "A", sf.res.body.member, domains)
                  /\ sf' = SfIdle
             ELSE /\ gd' = [g EXCEPT !.pc = "B", !.tried = 2]
                  /\ \E now \in Now : sf' = SfCall(DomainsUrlB(now), "domainsB", GetOpts)
  /\ GdLogs
  /\ UNCHANGED <<ca, calls, proxied, waited>>
  /\ UNCHANGED <<fm, uiVars>>

\* resumes after the Strategy 2 smartFetch
GdAfterB ==
  /\ gd.pc = "B"
  /\ SfDone
  /\ IF sf.pc = "thrown" \/ (Ok(sf.res) /\ CatalogThrows(sf.res.body))
     THEN gd' = GdCaught(gd)
     ELSE IF Ok(sf.res)
     THEN gd' = GdReturn(gd, "B", sf.res.body.member, CatalogDomains(sf.res.body))
     ELSE gd' = GdReturn(gd, "none", <<>>, <<>>)
  /\ sf' = SfIdle
  /\ GdLogs
  /\ UNCHANGED <<ca, calls, proxied, waited>>
  /\ UNCHANGED <<fm, uiVars>>

\* ---------------------------------------------------- createRealAccount
CaIdle ==
  [pc |-> "idle", customUsername |-> Undefined, customDomain |-> Undefined,
   domain |-> Undefined, k |-> 0, i |-> 0, isCustom |-> FALSE,
   address |-> NoAddress, password |-> Undefined, accountCreated |-> FALSE,
   status |-> 0, token |-> Undefined, session |-> NoSession, error |-> NoError]

CustomUsernames == {"alice"}
CustomDomains == {"x.net"}

\* In the frame: k and i are the loop counters, status is `const status =
\* createRes.status` of the current iteration (0 while unset).
\* throw inside the try block: catch logs and rethrows
CaThrow(c, err) == [c EXCEPT !.pc = "failed", !.error = err]

\* the catch block printing the token held by the frame
CatchLoggedFrame(c, err) == LogText(c.token)

\* catch (error) { console.error("Account Creation Logic Error:", error); ... }
CatchLogged(c, err) == LogError(err)

\* what the catch block leaks when this step threw
CaCatchTokens ==
  IF ca'.pc = "failed" THEN TokensIn(CatchLogged(ca', ca'.error)) ELSE {}
CaLogs == leaked' = leaked \cup CaCatchTokens
\* console.warn(`Random username collision (${currentUsername}), retrying...`)
CollisionLogged(c) == LogText(c.address.user)

\* one creation attempt more than the random budget
MaxRetriesSix(isCustom) == RandomMaxRetries + 1

\* a retry budget of one in both modes
MaxRetriesOne(isCustom) == CustomMaxRetries

\* const maxRetries = isCustom ? 1 : 5
MaxRetries(isCustom) == IF isCustom THEN CustomMaxRetries ELSE RandomMaxRetries

\* a collision never thrown as username-unavailable
CollisionNeverThrows(isCustom) == FALSE

\* if (status === 422) { if (isCustom) throw ...; continue; }
CollisionThrows(isCustom) == isCustom

\* one iteration of the creation loop up to its await, from frame c
CaAttempt(c) ==
  \E u \in randomString(10), p \in randomString(12) :
    LET currentUsername == IF c.isCustom THEN c.customUsername ELSE u
        address == Address(currentUsername, c.domain)
    IN /\ ca' = [c EXCEPT !.pc = "create", !.address = address, !.password = p,
                          !.status = 0]
       /\ sf' = SfCall(AccountsUrl, "accounts", PostOpts(address, p))

\* from the end of domain resolution (frame c has its domain) to the first
\* creation attempt
CaEnterLoop(c) ==
  CaAttempt([c EXCEPT !.isCustom = (c.customUsername # Undefined), !.i = 0])

\* one try too many
MoreDomainTriesOffByOne(k) == k <= DomainRetries

\* for(let k=0; k<3; k++): the loop test
MoreDomainTries(k) == k < DomainRetries

\* the catalog consulted whatever the caller passed
NeedsDiscoveryAlways(domain) == TRUE

\* let domain = customDomain; if (!domain)
NeedsDiscovery(domain) == domain = Undefined

\* createRealAccount(cu, cd) up to its first await
CaStartWith(cu, cd) ==
  /\ ca.pc = "idle"
  /\ LET c == [CaIdle EXCEPT !.customUsername = cu, !.customDomain = cd, !.domain = cd]
     IN IF NeedsDiscovery(c.domain)
        THEN /\ ca' = [c EXCEPT !.pc = "domains"]
             /\ gd' = GdCallA
             /\ \E now \in Now : sf' = SfCall(DomainsUrlA(now), "domainsA", GetOpts)
        ELSE /\ CaEnterLoop(c)
             /\ gd' = gd
  /\ UNCHANGED leaked

\* a call of createRealAccount by any caller
CaStart ==
  /\ fm.pc = "idle"
  /\ md.pc = "idle"
  /\ dm.pc = "idle"
  /\ \E cu \in CustomUsernames \cup {Undefined}, cd \in CustomDomains \cup {Undefined} :
       CaStartWith(cu, cd)
  /\ UNCHANGED <<calls, proxied, waited>>
  /\ UNCHANGED <<fm, uiVars>>

\* the setTimeout delay this step starts: 500 after an empty result
DomainsDelay ==
  IF gd.pc = "done" /\ Len(gd.result) = 0 THEN RetryDelayMs ELSE 0

\* resumes after await getAvailableDomains()
CaAfterDomainsCore ==
  /\ ca.pc = "domains"
  /\ gd.pc \in {"done", "thrown"}
  /\ gd' = GdIdle
  /\ IF gd.pc = "thrown"
     THEN /\ ca' = CaThrow(ca, Err("Other"))
          /\ sf' = sf
     ELSE IF Len(gd.result) > 0
     THEN \* break; domains.length > 0; pick domains[randomIndex].domain
          \E idx \in 1..Len(gd.result) :
            CaEnterLoop([ca EXCEPT !.domain = gd.result[idx].domain])
     ELSE \* await new Promise(r => setTimeout(r, 500))
          /\ ca' = [ca EXCEPT !.pc = "sleep"]
          /\ sf' = sf
  /\ CaLogs

CaAfterDomains ==
  /\ CaAfterDomainsCore
  /\ waited' = waited + DomainsDelay
  /\ UNCHANGED <<calls, proxied>>
  /\ UNCHANGED <<fm, uiVars>>

\* resumes after the 500ms timer: k++ and the loop test
CaAfterSleep ==
  /\ ca.pc = "sleep"
  /\ IF MoreDomainTries(ca.k + 1)
     THEN /\ ca' = [ca EXCEPT !.pc = "domains", !.k = ca.k + 1]
          /\ gd' = GdCallA
          /\ \E now \in Now : sf' = SfCall(DomainsUrlA(now), "domainsA", GetOpts)
     ELSE /\ ca' = CaThrow([ca EXCEPT !.k = ca.k + 1], Err("NoDomains"))
          /\ UNCHANGED <<gd, sf>>
  /\ CaLogs
  /\ UNCHANGED <<calls, proxied, waited>>
  /\ UNCHANGED <<fm, uiVars>>

\* the token request carrying the first random username, not the current one
TokenPayloadFirst(c) == PostOpts(Address(RandNames[1], c.domain), c.password)

\* body: JSON.stringify({ address, password }) of the token request
TokenPayload(c) == PostOpts(c.address, c.password)

\* resumes after the smartFetch of POST /accounts
CaAfterCreate ==
  /\ ca.pc = "create"
  /\ SfDone
  /\ IF sf.pc = "thrown"
     THEN ca' = CaThrow(ca, Err("NetworkError")) /\ sf' = SfIdle
     ELSE IF Ok(sf.res)
     THEN \* accountCreated = true; break; then the token request
          /\ ca' = [ca EXCEPT !.pc = "token", !.accountCreated = TRUE]
          /\ sf' = SfCall(TokenUrl, "token", TokenPayload(ca))
     ELSE IF sf.res.status = 422
     THEN IF CollisionThrows(ca.isCustom)
          THEN /\ ca' = CaThrow([ca EXCEPT !.status = 422], Err("UsernameUnavailable"))
               /\ sf' = SfIdle
          ELSE IF ca.i + 1 < MaxRetries(ca.isCustom)
          THEN \* continue: i++ and the next iteration
               CaAttempt([ca EXCEPT !.i = ca.i + 1])
          ELSE \* loop ends with accountCreated = false
               /\ ca' = CaThrow([ca EXCEPT !.i = ca.i + 1, !.status = 422],
                                Err("Exhausted"))
               /\ sf' = SfIdle
     ELSE IF sf.res.body.kind = "unreadable"
     THEN \* const errText = await createRes.text() rejects
          /\ ca' = CaThrow([ca EXCEPT !.status = sf.res.status], Err("TypeError"))
          /\ sf' = SfIdle
     ELSE \* throw new Error(`...: ${status}`)
          /\ ca' = CaThrow([ca EXCEPT !.status = sf.res.status],
                           [kind |-> "CreationFailed", status |-> sf.res.status])
          /\ sf' = SfIdle
  /\ leaked' = leaked \cup CaCatchTokens
                  \cup (IF sf.pc = "ret" /\ sf.res.status = 422 /\ ~ca.isCustom
                        THEN TokensIn(CollisionLogged(ca)) ELSE {})
  /\ UNCHANGED <<gd, calls, proxied, waited>>
  /\ UNCHANGED <<fm, uiVars>>

\* the token response never checked
TokenRejectedNever(res) == FALSE

\* if (!tokenRes.ok) throw new Error(login failed)
TokenRejected(res) == ~Ok(res)

\* resumes after the smartFetch of POST /token
CaAfterToken ==
  /\ ca.pc = "token"
  /\ SfDone
  /\ IF sf.pc = "thrown"
     THEN ca' = CaThrow(ca, Err("NetworkError")) /\ sf' = SfIdle
     ELSE IF TokenRejected(sf.res)
     THEN ca' = CaThrow(ca, Err("LoginFailed")) /\ sf' = SfIdle
     ELSE IF sf.res.body.kind = "unparsable"
     THEN ca' = CaThrow(ca, Err("SyntaxError")) /\ sf' = SfIdle
     ELSE IF sf.res.body.kind = "null"
     THEN ca' = CaThrow(ca, Err("TypeError")) /\ sf' = SfIdle
     ELSE /\ ca' = [ca EXCEPT !.pc = "me", !.token = sf.res.body.token]
          /\ sf' = SfCall(MeUrl, "me", BearerOpts(sf.res.body.token))
  /\ CaLogs
  /\ UNCHANGED <<gd, calls, proxied, waited>>
  /\ UNCHANGED <<fm, uiVars>>

\* every session given an expiry
ExpiresAtAlways(isCustom, now) == now + ExpiryMs

\* const expiresAt = isCustom ? null : new Date(now.getTime() + 10 * 60 * 1000)
ExpiresAt(isCustom, now) == IF isCustom THEN NullDate ELSE now + ExpiryMs

\* resumes after the smartFetch of GET /me
CaAfterMe ==
  /\ ca.pc = "me"
  /\ SfDone
  /\ sf' = SfIdle
  /\ IF sf.pc = "thrown"
     THEN ca' = CaThrow(ca, Err("NetworkError"))
     ELSE IF sf.res.body.kind = "unparsable"
     THEN ca' = CaThrow(ca, Err("SyntaxError"))
     ELSE IF sf.res.body.kind = "null"
     THEN ca' = CaThrow(ca, Err("TypeError"))
     ELSE \E now \in Now :
          ca' = [ca EXCEPT
                   !.pc = "returned",
                   !.session =
                     [emailAddress |-> ca.address,
                      createdAt |-> now,
                      expiresAt |-> ExpiresAt(ca.isCustom, now),
                      isPremium |-> ca.isCustom,
                      token |-> ca.token,
                      accountId |-> sf.res.body.id,
                      password |-> ca.password,
                      isMock |-> FALSE]]
  /\ CaLogs
  /\ UNCHANGED <<gd, calls, proxied, waited>>
  /\ UNCHANGED <<fm, uiVars>>

\* no service call is in progress
ServiceIdle == sf.pc = "idle" /\ gd.pc = "idle" /\ ca.pc = "idle"

\* --------------------------------------------------------- fetchMessages
\* pc: "await" while the smartFetch is awaited, "done" once the call has
\* returned result; out is what smartFetch gave (status 0 when it threw),
\* caught whether the catch block ran
FmIdle ==
  [pc |-> "idle", token |-> Undefined, out |-> NoOutcome, caught |-> FALSE,
   result |-> <<>>]

\* fetchMessages(token) up to its await, by any caller
FmStart ==
  /\ fm.pc = "idle"
  /\ md.pc = "idle"
  /\ dm.pc = "idle"
  /\ ServiceIdle
  /\ \E token \in Tokens \cup {Undefined} :
       /\ fm' = [FmIdle EXCEPT !.pc = "await", !.token = token]
       /\ sf' = SfCall(MessagesUrl, "messages", BearerOpts(token))
  /\ UNCHANGED <<gd, ca, calls, proxied, waited, leaked>>
  /\ UNCHANGED uiVars

\* msg.from.name, msg.from.address.split('@') throw on these entries
SummaryThrows(msg) ==
  \/ ~msg.from.present
  \/ msg.from.name = "" /\ msg.from.address = NoAddress

\* await res.json() and data['hydra:member'].map(...) throw on these bodies
MessagesThrow(body) ==
  \/ body.kind \in {"unparsable", "null"}
  \/ body.memberKind \in {"missing", "notarray", "nullentry"}
  \/ \E j \in 1..Len(body.member) : SummaryThrows(body.member[j])

\* the object the map callback builds
ToSummary(msg) ==
  [id |-> msg.id,
   sender |-> IF msg.from.name # "" THEN msg.from.name ELSE msg.from.address.user,
   senderAddress |-> msg.from.address,
   subject |-> msg.subject,
   preview |-> IF msg.intro # "" THEN msg.intro ELSE "No preview available",
   body |-> msg.intro,
   receivedAt |-> msg.createdAt,
   isRead |-> msg.seen,
   type |-> "normal",
   hasFullDetails |-> FALSE]

\* the catch block rethrowing
FmCatchRethrows == "thrown"

\* catch (error) { return []; }
FmCatchPc == "done"

\* resumes after the smartFetch of GET /messages?page=1
FmAfterFetch ==
  /\ fm.pc = "await"
  /\ SfDone
  /\ LET out == IF sf.pc = "thrown" THEN Rejected ELSE sf.res
         f == [fm EXCEPT !.out = out]
     IN IF sf.pc = "thrown" \/ (Ok(sf.res) /\ MessagesThrow(sf.res.body))
        THEN fm' = [f EXCEPT !.pc = FmCatchPc, !.caught = TRUE, !.result = <<>>]
        ELSE IF ~Ok(sf.res)
        THEN fm' = [f EXCEPT !.pc = "done", !.result = <<>>]
        ELSE fm' = [f EXCEPT !.pc = "done",
                             !.result = [j \in 1..Len(sf.res.body.member) |->
                                           ToSummary(sf.res.body.member[j])]]
  /\ sf' = SfIdle
  /\ UNCHANGED <<gd, ca, calls, proxied, waited, leaked>>
  /\ UNCHANGED uiVars

\* --------------------------------------------------- fetchMessageDetails
\* pc: "await" while the smartFetch is awaited, "done" once the call has
\* returned result; out is what smartFetch gave (status 0 when it threw).
\* result is null, or the object { body, hasFullDetails }
Null == [isNull |-> TRUE, body |-> "", hasFullDetails |-> FALSE]
Details(body) == [isNull |-> FALSE, body |-> body, hasFullDetails |-> TRUE]
MdIdle ==
  [pc |-> "idle", token |-> Undefined, messageId |-> Undefined, out |-> NoOutcome,
   result |-> Null]

\* fetchMessageDetails(token, messageId) up to its await, by any caller
MdStart ==
  /\ md.pc = "idle"
  /\ fm.pc = "idle"
  /\ dm.pc = "idle"
  /\ ServiceIdle
  /\ \E token \in Tokens \cup {Undefined}, id \in MsgIds :
       /\ md' = [MdIdle EXCEPT !.pc = "await", !.token = token, !.messageId = id]
       /\ sf' = SfCall(MessageUrl(id), "message", BearerOpts(token))
  /\ UNCHANGED <<gd, ca, fm, dm, calls, proxied, waited, leaked>>
  /\ UNCHANGED <<app, modal, hd, seenActive, ops, inboxVars>>

\* string concatenation over the strings html parts are made of
Concat(a, b) ==
  CASE a = "" -> b
    [] b = "" -> a
    [] a = "a" /\ b = "a" -> "aa"
    [] a = "a" /\ b = "b" -> "ab"
    [] a = "b" /\ b = "a" -> "ba"
    [] a = "b" /\ b = "b" -> "bb"
RECURSIVE Join(_)
\* data.html.join('')
Join(parts) == IF parts = <<>> THEN "" ELSE Concat(Head(parts), Join(Tail(parts)))

\* the html / text cascade that computes bodyContent
BodyContent(data) ==
  IF data.html.kind = "array" /\ Len(data.html.parts) > 0 THEN Join(data.html.parts)
  ELSE IF data.html.kind = "string" /\ data.html.parts[1] # "" THEN data.html.parts[1]
  ELSE IF data.text # "" THEN data.text
  ELSE "No content"

\* await res.json() rejects, or data.html throws on the JSON value null
DetailThrows(body) == body.kind \in {"unparsable", "null", "unreadable"}

\* resumes after the smartFetch of GET /messages/{id}; the status of the
\* response is not consulted
MdAfterFetch ==
  /\ md.pc = "await"
  /\ SfDone
  /\ LET out == IF sf.pc = "thrown" THEN Rejected ELSE sf.res
         f == [md EXCEPT !.pc = "done", !.out = out]
     IN IF sf.pc = "thrown" \/ DetailThrows(sf.res.body)
        THEN md' = [f EXCEPT !.result = Null]
        ELSE md' = [f EXCEPT !.result = Details(BodyContent(sf.res.body))]
  /\ sf' = SfIdle
  /\ UNCHANGED <<gd, ca, fm, dm, calls, proxied, waited, leaked>>
  /\ UNCHANGED <<app, modal, hd, seenActive, ops, inboxVars>>

\* --------------------------------------------------------- deleteMessage
\* pc: "await" while the smartFetch is awaited, "done" once the call has
\* returned result (a boolean)
DmIdle ==
  [pc |-> "idle", token |-> Undefined, messageId |-> Undefined, out |-> NoOutcome,
   result |-> FALSE]

\* deleteMessage(token, messageId) up to its await, by any caller
DmStart ==
  /\ dm.pc = "idle"
  /\ fm.pc = "idle"
  /\ md.pc = "idle"
  /\ ServiceIdle
  /\ \E token \in Tokens \cup {Undefined}, id \in MsgIds :
       /\ dm' = [DmIdle EXCEPT !.pc = "await", !.token = token, !.messageId = id]
       /\ sf' = SfCall(MessageUrl(id), "delete", DeleteOpts(token))
  /\ UNCHANGED <<gd, ca, fm, md, calls, proxied, waited, leaked>>
  /\ UNCHANGED <<app, modal, hd, seenActive, ops, inboxVars>>

\* resumes after the smartFetch of DELETE /messages/{id}: return true once
\* smartFetch has returned any response, return false in the catch block
DmAfterFetch ==
  /\ dm.pc = "await"
  /\ SfDone
  /\ dm' = [dm EXCEPT !.pc = "done",
                      !.out = IF sf.pc = "thrown" THEN Rejected ELSE sf.res,
                      !.result = (sf.pc # "thrown")]
  /\ sf' = SfIdle
  /\ UNCHANGED <<gd, ca, fm, md, calls, proxied, waited, leaked>>
  /\ UNCHANGED <<app, modal, hd, seenActive, ops, inboxVars>>

\* ================================================================== UI
\* App (src/unnamed/part_000) and PremiumModal, driving the service above.  One
\* service call is in flight at a time: a handler that needs the service
\* starts only while no smartFetch, getAvailableDomains or createRealAccount
\* frame is live.
SESSION_DURATION_MS == 10 * 60 * 1000

\* useState initial values of App
AppInit ==
  [session |-> NoSession, timeLeft |-> SESSION_DURATION_MS, emails |-> <<>>,
   selectedEmailId |-> Undefined, isRefreshing |-> FALSE, error |-> NoError,
   isPremiumModalOpen |-> FALSE]

\* useState initial values of PremiumModal
ModalInit ==
  [username |-> "", selectedDomain |-> "", domains |-> <<>>,
   isLoading |-> FALSE, isProcessing |-> FALSE, error |-> NoError]

\* hcs: handleCreateSession, ld: loadDomains ("idle" or "await"); hp:
\* handlePaymentAndCreate with the username and selectedDomain its closure
\* captured, "delay" during the simulated payment, "await" during onUpgrade
HpIdle == [pc |-> "idle", username |-> "", domain |-> ""]
HdInit == [hcs |-> "idle", ld |-> "idle", hp |-> HpIdle]
\* a createRealAccount promise: "pending" until it settles with a Session
\* ("returned") or an error ("failed")
CrIdle == [pc |-> "idle", session |-> NoSession, error |-> NoError]
CrPending == [CrIdle EXCEPT !.pc = "pending"]
CrInit == [hcs |-> CrIdle, hp |-> CrIdle]
OpsInit ==
  [creates |-> 0, loads |-> 0, upgrades |-> 0, polls |-> 0, selects |-> 0,
   renews |-> 0, extends |-> 0]

\* the mount effect has run
Mounted == ops.creates >= 1

\* the active domains of a catalog answer's 'hydra:member'
ActiveNames(member) ==
  {member[j].domain : j \in {m \in 1..Len(member) : member[m].isActive}}
Names(domains) == {domains[j].domain : j \in 1..Len(domains)}

\* handleCreateSession up to its await: the mount effect, or the new-address
\* button (disabled while isRefreshing)
HandleCreateSession ==
  /\ ServiceIdle
  /\ ~app.isRefreshing
  /\ ops.creates < MaxCreates
  /\ app' = [app EXCEPT !.isRefreshing = TRUE, !.error = NoError]
  /\ hd' = [hd EXCEPT !.hcs = "await"]
  /\ ops' = [ops EXCEPT !.creates = @ + 1]
  /\ CaStartWith(Undefined, Undefined)
  /\ UNCHANGED <<fm, counters, modal, seenActive>>
  /\ UNCHANGED <<msgVars, inboxVars>>

\* a premium session never replaced
WithNewSessionKeepPremium(a, newSession) ==
  IF a.session.isPremium
  THEN a
  ELSE [a EXCEPT !.session = newSession, !.emails = <<>>,
                 !.selectedEmailId = Undefined, !.timeLeft = SESSION_DURATION_MS]

\* setSession(newSession); setEmails([]); setSelectedEmailId(null);
\* setTimeLeft(SESSION_DURATION_MS)
WithNewSession(a, newSession) ==
  [a EXCEPT !.session = newSession, !.emails = <<>>,
            !.selectedEmailId = Undefined, !.timeLeft = SESSION_DURATION_MS]

\* catch (e) { console.error(e); ... }
HcsLogged(e) == LogError(e)

\* handleCreateSession after await createRealAccount(), which returned
\* newSession or threw e
HcsReturned(a, newSession) == [WithNewSession(a, newSession) EXCEPT !.isRefreshing = FALSE]
\* the failure path resetting the list and the selection as the success path does
HcsThrownResets(a, e) ==
  [a EXCEPT !.error = e, !.isRefreshing = FALSE, !.emails = <<>>,
            !.selectedEmailId = Undefined]
HcsThrown(a, e) == [a EXCEPT !.error = e, !.isRefreshing = FALSE]

\* handleCreateSession resumes after await createRealAccount()
HcsResume ==
  /\ hd.hcs = "await"
  /\ ca.pc \in {"returned", "failed"}
  /\ IF ca.pc = "returned"
     THEN /\ app' = HcsReturned(app, ca.session)
          /\ leaked' = leaked
          /\ listToken' = Undefined
     ELSE /\ app' = HcsThrown(app, ca.error)
          /\ Writes(HcsLogged(ca.error))
          /\ listToken' = listToken
  /\ ca' = CaIdle
  /\ hd' = [hd EXCEPT !.hcs = "idle"]
  /\ UNCHANGED <<sf, gd, fm, counters, modal, seenActive, ops>>
  /\ UNCHANGED <<msgVars, polls, fbs, cr>>

\* loadDomains up to its await
LoadDomainsStart ==
  /\ ServiceIdle
  /\ ops.loads < MaxLoads
  /\ modal' = [modal EXCEPT !.isLoading = TRUE, !.error = NoError]
  /\ hd' = [hd EXCEPT !.ld = "await"]
  /\ ops' = [ops EXCEPT !.loads = @ + 1]
  /\ gd' = GdCallA
  /\ \E now \in Now : sf' = SfCall(DomainsUrlA(now), "domainsA", GetOpts)
  /\ UNCHANGED <<ca, fm, counters, leaked, seenActive>>
  /\ UNCHANGED <<msgVars, inboxVars>>

\* setIsPremiumModalOpen(true), then the modal's effect on isOpen
OpenModal ==
  /\ Mounted
  /\ ~app.isPremiumModalOpen
  /\ app' = [app EXCEPT !.isPremiumModalOpen = TRUE]
  /\ LoadDomainsStart

\* the refresh button of the modal, disabled while isLoading
RefreshDomains ==
  /\ app.isPremiumModalOpen
  /\ ~modal.isLoading
  /\ app' = app
  /\ LoadDomainsStart

\* endsWith('.com')
EndsWithCom(name) == name \in {"a.com"}
\* available.sort(...): the .com domains first, the order otherwise kept
SortComFirst(available) ==
  SelectSeq(available, LAMBDA d : EndsWithCom(d.domain))
    \o SelectSeq(available, LAMBDA d : ~EndsWithCom(d.domain))

\* a fixed default, whatever the catalog lists
DefaultSelectionFixed(available) == "x.net"

\* setSelectedDomain(available[0].domain)
DefaultSelection(available) == available[1].domain

\* loadDomains resumes after await getAvailableDomains()
LoadDomainsResume ==
  /\ hd.ld = "await"
  /\ gd.pc \in {"done", "thrown"}
  /\ IF gd.pc = "thrown"
     THEN /\ modal' = [modal EXCEPT !.error = Err("Connection"), !.isLoading = FALSE]
          /\ seenActive' = seenActive
     ELSE LET available == SortComFirst(gd.result)
          IN /\ modal' = [modal EXCEPT
                            !.domains = available,
                            !.selectedDomain =
                              IF Len(available) > 0 THEN DefaultSelection(available) ELSE @,
                            !.error =
                              IF Len(available) > 0 THEN @ ELSE Err("NoDomainsFound"),
                            !.isLoading = FALSE]
             /\ seenActive' = seenActive \cup ActiveNames(gd.src)
  /\ gd' = GdIdle
  /\ hd' = [hd EXCEPT !.ld = "idle"]
  /\ UNCHANGED <<sf, ca, fm, counters, leaked, app, ops>>
  /\ UNCHANGED <<msgVars, inboxVars>>

\* what the user types into the username field, and what the onChange handler
\* keeps of it: e.target.value.toLowerCase().replace(/[^a-z0-9.]/g, '')
RawUsernames == {"al", "Alice!"}
Sanitize(raw) == CASE raw = "Alice!" -> "alice" [] OTHER -> raw
\* username.length
StrLen(name) == CASE name = "" -> 0 [] name = "al" -> 2 [] name = "alice" -> 5

TypeUsername ==
  /\ ServiceIdle
  /\ app.isPremiumModalOpen
  /\ \E raw \in RawUsernames : modal' = [modal EXCEPT !.username = Sanitize(raw)]
  /\ UNCHANGED <<sf, gd, ca, fm, counters, leaked, app, hd, seenActive, ops>>
  /\ UNCHANGED <<msgVars, inboxVars>>

\* the <select>, rendered while not loading, with one option per entry of domains
SelectDomain ==
  /\ ServiceIdle
  /\ app.isPremiumModalOpen
  /\ ~modal.isLoading
  /\ \E d \in Names(modal.domains) : modal' = [modal EXCEPT !.selectedDomain = d]
  /\ UNCHANGED <<sf, gd, ca, fm, counters, leaked, app, hd, seenActive, ops>>
  /\ UNCHANGED <<msgVars, inboxVars>>

\* if (!username || username.length < 3)
UsernameTooShort(name) == StrLen(name) < 3

\* handlePaymentAndCreate up to its first await; its button is disabled while
\* isProcessing || isLoading || domains.length === 0
HandlePaymentAndCreate ==
  /\ ServiceIdle
  /\ app.isPremiumModalOpen
  /\ ~modal.isProcessing
  /\ ~modal.isLoading
  /\ Len(modal.domains) # 0
  /\ IF UsernameTooShort(modal.username)
     THEN /\ modal' = [modal EXCEPT !.error = Err("ShortUsername")]
          /\ UNCHANGED <<hd, ops>>
     ELSE IF modal.selectedDomain = ""
     THEN /\ modal' = [modal EXCEPT !.error = Err("NoDomainSelected")]
          /\ UNCHANGED <<hd, ops>>
     ELSE /\ ops.upgrades < MaxUpgrades
          /\ modal' = [modal EXCEPT !.isProcessing = TRUE, !.error = NoError]
          /\ hd' = [hd EXCEPT !.hp = [pc |-> "delay", username |-> modal.username,
                                      domain |-> modal.selectedDomain]]
          /\ ops' = [ops EXCEPT !.upgrades = @ + 1]
  /\ UNCHANGED <<sf, gd, ca, fm, counters, leaked, app, seenActive>>
  /\ UNCHANGED <<msgVars, inboxVars>>

\* after the 1500ms payment delay: onUpgrade(username, selectedDomain), which is
\* handlePremiumCreate, up to its await
HpAfterDelay ==
  /\ hd.hp.pc = "delay"
  /\ ServiceIdle
  /\ hd' = [hd EXCEPT !.hp.pc = "await"]
  /\ CaStartWith(hd.hp.username, hd.hp.domain)
  /\ UNCHANGED <<fm, counters, app, modal, seenActive, ops>>
  /\ UNCHANGED <<msgVars, inboxVars>>

\* handlePremiumCreate after await createRealAccount(username, domain) returned
\* newSession, then handlePaymentAndCreate: onClose() and setIsProcessing(false)
HpReturnedApp(a, newSession) ==
  [WithNewSession(a, newSession) EXCEPT !.isPremiumModalOpen = FALSE]
HpReturnedModal(mo) == [mo EXCEPT !.isProcessing = FALSE]
\* the await threw e through handlePremiumCreate: setError and
\* setIsProcessing(false) in handlePaymentAndCreate
HpThrownModal(mo, e) == [mo EXCEPT !.error = e, !.isProcessing = FALSE]

\* handlePremiumCreate resumes after await createRealAccount(username, domain);
\* then handlePaymentAndCreate: onClose() on success, setError on a throw,
\* setIsProcessing(false) in both cases
HpResume ==
  /\ hd.hp.pc = "await"
  /\ ca.pc \in {"returned", "failed"}
  /\ IF ca.pc = "returned"
     THEN /\ app' = HpReturnedApp(app, ca.session)
          /\ modal' = HpReturnedModal(modal)
          /\ listToken' = Undefined
     ELSE /\ app' = app
          /\ modal' = HpThrownModal(modal, ca.error)
          /\ listToken' = listToken
  /\ ca' = CaIdle
  /\ hd' = [hd EXCEPT !.hp = HpIdle]
  /\ UNCHANGED <<sf, gd, fm, counters, leaked, seenActive, ops>>
  /\ UNCHANGED <<msgVars, polls, fbs, cr>>

\* the close button of the modal
CloseModal ==
  /\ ServiceIdle
  /\ app.isPremiumModalOpen
  /\ app' = [app EXCEPT !.isPremiumModalOpen = FALSE]
  /\ UNCHANGED <<sf, gd, ca, fm, counters, leaked, modal, hd, seenActive, ops>>
  /\ UNCHANGED <<msgVars, inboxVars>>

\* the service steps under the UI: the request counters are not kept
AppSfDirect ==
  /\ SfDirectCore
  /\ UNCHANGED <<fm, counters>>
  /\ UNCHANGED <<fm, uiVars>>

AppSfProxy ==
  /\ SfProxyCore
  /\ UNCHANGED <<fm, counters>>
  /\ UNCHANGED <<fm, uiVars>>

AppCaAfterDomains ==
  /\ CaAfterDomainsCore
  /\ seenActive' = seenActive \cup (IF gd.pc = "done" THEN ActiveNames(gd.src) ELSE {})
  /\ UNCHANGED <<fm, counters>>
  /\ UNCHANGED <<app, modal, hd, ops, msgVars, inboxVars>>

Init ==
  /\ sf = SfIdle
  /\ gd = GdIdle
  /\ ca = CaIdle
  /\ calls = [ep \in Endpoints |-> 0]
  /\ proxied = 0
  /\ waited = 0
  /\ fm = FmIdle
  /\ md = MdIdle
  /\ dm = DmIdle
  /\ polls = <<>>
  /\ fbs = <<>>
  /\ cr = CrInit
  /\ listToken = Undefined
  /\ leaked = {}
  /\ app = AppInit
  /\ modal = ModalInit
  /\ hd = HdInit
  /\ seenActive = {}
  /\ ops = OpsInit

Next ==
  \/ CaStart
  \/ CaAfterDomains
  \/ CaAfterSleep
  \/ CaAfterCreate
  \/ CaAfterToken
  \/ CaAfterMe
  \/ GdAfterA
  \/ GdAfterB
  \/ FmStart
  \/ FmAfterFetch
  \/ MdStart
  \/ MdAfterFetch
  \/ DmStart
  \/ DmAfterFetch
  \/ SfDirect
  \/ SfProxy

Spec == Init /\ [][Next]_vars

\* App from its construction: the mount effect's handleCreateSession and the
\* service steps it starts
NextApp ==
  \/ HandleCreateSession
  \/ HcsResume
  \/ AppCaAfterDomains
  \/ CaAfterSleep
  \/ CaAfterCreate
  \/ CaAfterToken
  \/ CaAfterMe
  \/ GdAfterA
  \/ GdAfterB
  \/ AppSfDirect
  \/ AppSfProxy

SpecApp == Init /\ [][NextApp]_vars

\* App once the mount effect's handleCreateSession has completed: it failed
\* with no domain available, or it stored a session
MountedSession ==
  [emailAddress |-> Address("r1", "a.com"), createdAt |-> 0,
   expiresAt |-> ExpiresAt(FALSE, 0), isPremium |-> FALSE, token |-> "tok",
   accountId |-> "acc", password |-> "r2", isMock |-> FALSE]
InitModal ==
  /\ sf = SfIdle
  /\ gd = GdIdle
  /\ ca = CaIdle
  /\ calls = [ep \in Endpoints |-> 0]
  /\ proxied = 0
  /\ waited = 0
  /\ fm = FmIdle
  /\ md = MdIdle
  /\ dm = DmIdle
  /\ polls = <<>>
  /\ fbs = <<>>
  /\ cr = CrInit
  /\ listToken = Undefined
  /\ leaked = {}
  /\ \/ app = [AppInit EXCEPT !.error = Err("NoDomains")] /\ seenActive = {}
     \/ app = WithNewSession(AppInit, MountedSession) /\ seenActive = {"a.com"}
  /\ modal = ModalInit
  /\ hd = HdInit
  /\ ops = [OpsInit EXCEPT !.creates = 1]

\* PremiumModal under the mounted App: its handlers, handlePremiumCreate and
\* the service steps they start
NextModal ==
  \/ OpenModal
  \/ RefreshDomains
  \/ LoadDomainsResume
  \/ TypeUsername
  \/ SelectDomain
  \/ HandlePaymentAndCreate
  \/ HpAfterDelay
  \/ HpResume
  \/ CloseModal
  \/ CaAfterCreate
  \/ CaAfterToken
  \/ CaAfterMe
  \/ GdAfterA
  \/ GdAfterB
  \/ AppSfDirect
  \/ AppSfProxy

SpecModal == InitModal /\ [][NextModal]_vars

\* =============================================================== inbox
\* App with its effects (polling, fetchBody) and its two callers of
\* createRealAccount running concurrently.  Here a call of the service is a
\* promise the handler awaits: it settles with one of the results the service
\* above yields, and the handler's continuation runs in a later step.

\* the token the provider issues for an account
UiTokens == {"tok", "tok2"}
AccountToken(address) == IF address.user \in CustomUsernames THEN "tok2" ELSE "tok"

\* the Sessions createRealAccount(cu, cd) returns
CreatedSessions(cu, cd) ==
  {[emailAddress |-> Address(u, d), createdAt |-> now,
    expiresAt |-> ExpiresAt(cu # Undefined, now), isPremium |-> (cu # Undefined),
    token |-> AccountToken(Address(u, d)), accountId |-> "acc",
    password |-> RandNames[1], isMock |-> FALSE] :
     u \in (IF cu = Undefined THEN {RandNames[1]} ELSE {cu}),
     d \in (IF cd = Undefined THEN {"a.com"} ELSE {cd}),
     now \in Now}
\* the errors it throws, by one of them
CreateFailures == {"NetworkError"}
CreateOutcomes(cu, cd) ==
  {[pc |-> "failed", session |-> NoSession, error |-> Err(k)] : k \in CreateFailures}
    \cup {[pc |-> "returned", session |-> se, error |-> NoError] :
            se \in CreatedSessions(cu, cd)}

\* the lists fetchMessages returns: the summaries of a mailbox, no id twice
Summary(id) ==
  ToSummary([id |-> id,
             from |-> [present |-> TRUE, name |-> "Bob",
                       address |-> [user |-> "bob", domain |-> "a.com"]],
             subject |-> "s", intro |-> "hi", createdAt |-> 0, seen |-> FALSE])
Inboxes ==
  {[j \in 1..Len(ids) |-> Summary(ids[j])] :
     ids \in {q \in SeqsUpTo(MsgIds, MaxMessages) :
                \A a, b \in 1..Len(q) : a # b => q[a] # q[b]}}

\* what fetchMessageDetails returns
DetailResults == {Null, Details("ab")}

RemoveAt(seq, j) == SubSeq(seq, 1, j - 1) \o SubSeq(seq, j + 1, Len(seq))

\* --- createRealAccount awaited by handleCreateSession
HcsPromiseSettles ==
  /\ cr.hcs.pc = "pending"
  /\ \E o \in CreateOutcomes(Undefined, Undefined) : cr' = [cr EXCEPT !.hcs = o]
  /\ UNCHANGED <<sf, gd, ca, fm, counters, leaked>>
  /\ UNCHANGED <<app, modal, hd, seenActive, ops, msgVars, polls, fbs, listToken>>

\* handleCreateSession resumes after await createRealAccount()
HcsContinue ==
  /\ hd.hcs = "await"
  /\ cr.hcs.pc \in {"returned", "failed"}
  /\ IF cr.hcs.pc = "returned"
     THEN /\ app' = HcsReturned(app, cr.hcs.session)
          /\ leaked' = leaked
          /\ listToken' = Undefined
     ELSE /\ app' = HcsThrown(app, cr.hcs.error)
          /\ Writes(HcsLogged(cr.hcs.error))
          /\ listToken' = listToken
  /\ cr' = [cr EXCEPT !.hcs = CrIdle]
  /\ hd' = [hd EXCEPT !.hcs = "idle"]
  /\ UNCHANGED <<sf, gd, ca, fm, counters, modal, seenActive, ops>>
  /\ UNCHANGED <<msgVars, polls, fbs>>

\* the new-address button, disabled while isRefreshing: handleCreateSession
\* up to its await
NewAddress ==
  /\ ~app.isRefreshing
  /\ ops.renews < MaxRenews
  /\ app' = [app EXCEPT !.isRefreshing = TRUE, !.error = NoError]
  /\ hd' = [hd EXCEPT !.hcs = "await"]
  /\ cr' = [cr EXCEPT !.hcs = CrPending]
  /\ ops' = [ops EXCEPT !.renews = @ + 1]
  /\ UNCHANGED <<sf, gd, ca, fm, counters, leaked>>
  /\ UNCHANGED <<modal, seenActive, msgVars, polls, fbs, listToken>>

\* --- extendSession
\* if (!session || session.isPremium) return
ExtendReturnsNever(session) == FALSE
ExtendReturns(session) == session = NoSession \/ session.isPremium
\* { ...session, expiresAt: new Date(now.getTime() + SESSION_DURATION_MS) }
Extended(session, now) == [session EXCEPT !.expiresAt = now + SESSION_DURATION_MS]

ExtendSession ==
  /\ ops.extends < MaxExtends
  /\ IF ExtendReturns(app.session)
     THEN app' = app
     ELSE \E now \in Now :
            app' = [app EXCEPT !.session = Extended(app.session, now),
                               !.timeLeft = SESSION_DURATION_MS]
  /\ ops' = [ops EXCEPT !.extends = @ + 1]
  /\ UNCHANGED <<sf, gd, ca, fm, counters, leaked>>
  /\ UNCHANGED <<modal, hd, seenActive, msgVars, inboxVars>>

\* --- createRealAccount awaited by handlePremiumCreate
\* after the 1500ms payment delay: onUpgrade(username, selectedDomain), which is
\* handlePremiumCreate, up to its await
HpCallsUpgrade ==
  /\ hd.hp.pc = "delay"
  /\ hd' = [hd EXCEPT !.hp.pc = "await"]
  /\ cr' = [cr EXCEPT !.hp = CrPending]
  /\ UNCHANGED <<sf, gd, ca, fm, counters, leaked>>
  /\ UNCHANGED <<app, modal, seenActive, ops, msgVars, polls, fbs, listToken>>

HpPromiseSettles ==
  /\ cr.hp.pc = "pending"
  /\ \E o \in CreateOutcomes(hd.hp.username, hd.hp.domain) : cr' = [cr EXCEPT !.hp = o]
  /\ UNCHANGED <<sf, gd, ca, fm, counters, leaked>>
  /\ UNCHANGED <<app, modal, hd, seenActive, ops, msgVars, polls, fbs, listToken>>

\* handlePremiumCreate resumes, then handlePaymentAndCreate
HpContinue ==
  /\ hd.hp.pc = "await"
  /\ cr.hp.pc \in {"returned", "failed"}
  /\ IF cr.hp.pc = "returned"
     THEN /\ app' = HpReturnedApp(app, cr.hp.session)
          /\ modal' = HpReturnedModal(modal)
          /\ listToken' = Undefined
     ELSE /\ app' = app
          /\ modal' = HpThrownModal(modal, cr.hp.error)
          /\ listToken' = listToken
  /\ cr' = [cr EXCEPT !.hp = CrIdle]
  /\ hd' = [hd EXCEPT !.hp = HpIdle]
  /\ UNCHANGED <<sf, gd, ca, fm, counters, leaked, seenActive, ops>>
  /\ UNCHANGED <<msgVars, polls, fbs>>

\* --- the polling effect
\* pollEmails up to its await, with the session.token its closure captured:
\* the effect's first call, or a tick of its interval
PollStart ==
  /\ app.session.token # Undefined
  /\ ops.polls < MaxPolls
  /\ polls' = Append(polls, [pc |-> "await", token |-> app.session.token,
                             failed |-> FALSE, newMessages |-> <<>>])
  /\ ops' = [ops EXCEPT !.polls = @ + 1]
  /\ UNCHANGED <<sf, gd, ca, fm, counters, leaked>>
  /\ UNCHANGED <<app, modal, hd, seenActive, msgVars, fbs, cr, listToken>>

\* what fetchMessages returns when the response is not ok or the request or
\* the reading of the body throws
FailedList == <<>>
\* what fetchMessages(token) gives: the mailbox's summaries, or FailedList
PollOutcomes ==
  {[failed |-> FALSE, newMessages |-> r] : r \in Inboxes}
    \cup {[failed |-> TRUE, newMessages |-> FailedList]}

\* fetchMessages(session.token) returns
PollSettles ==
  /\ \E j \in 1..Len(polls), o \in PollOutcomes :
       /\ polls[j].pc = "await"
       /\ polls' = [polls EXCEPT ![j].pc = "fetched", ![j].failed = o.failed,
                                 ![j].newMessages = o.newMessages]
  /\ UNCHANGED <<sf, gd, ca, fm, counters, leaked>>
  /\ UNCHANGED <<app, modal, hd, seenActive, ops, msgVars, fbs, cr, listToken>>

\* every fetched list taken
ListChangedAlways(newMessages, prevEmails) == TRUE

\* the two tests of the setEmails updater
ListChanged(newMessages, prevEmails) ==
  \/ Len(newMessages) # Len(prevEmails)
  \/ /\ Len(newMessages) > 0
     /\ Len(prevEmails) > 0
     /\ newMessages[1].id # prevEmails[1].id

\* pollEmails resumes: setEmails(prevEmails => ...)
PollResume ==
  /\ \E j \in 1..Len(polls) :
       /\ polls[j].pc = "fetched"
       /\ IF ListChanged(polls[j].newMessages, app.emails)
          THEN /\ app' = [app EXCEPT !.emails = polls[j].newMessages]
               /\ listToken' = polls[j].token
          ELSE /\ app' = app
               /\ listToken' = listToken
       /\ polls' = RemoveAt(polls, j)
  /\ UNCHANGED <<sf, gd, ca, fm, counters, leaked>>
  /\ UNCHANGED <<modal, hd, seenActive, ops, msgVars, fbs, cr>>

\* --- the fetchBody effect
\* emails.find(e => e.id === id) finds an entry
Has(emails, id) == \E j \in 1..Len(emails) : emails[j].id = id
\* the entry it finds: the first one with that id
Find(emails, id) ==
  emails[CHOOSE j \in 1..Len(emails) :
           /\ emails[j].id = id
           /\ \A l \in 1..(j - 1) : emails[l].id # id]

\* fetchBody gets as far as its await
FetchNeeded(a) ==
  /\ a.selectedEmailId # Undefined
  /\ a.session.token # Undefined
  /\ Has(a.emails, a.selectedEmailId)
  /\ ~Find(a.emails, a.selectedEmailId).hasFullDetails

\* the effect on [selectedEmailId, session] after a render with state a:
\* fetchBody up to its await, with the ids its closure captured
FetchBodyEffect(a) ==
  fbs' = IF FetchNeeded(a)
         THEN Append(fbs, [pc |-> "await", token |-> a.session.token,
                           id |-> a.selectedEmailId, details |-> Null])
         ELSE fbs

\* onClick={() => setSelectedEmailId(email.id)} on an entry of the list, then
\* the effect
SelectEmail ==
  /\ ops.selects < MaxSelects
  /\ \E j \in 1..Len(app.emails) :
       /\ app.emails[j].id # app.selectedEmailId
       /\ app' = [app EXCEPT !.selectedEmailId = app.emails[j].id]
  /\ FetchBodyEffect(app')
  /\ ops' = [ops EXCEPT !.selects = @ + 1]
  /\ UNCHANGED <<sf, gd, ca, fm, counters, leaked>>
  /\ UNCHANGED <<modal, hd, seenActive, msgVars, polls, cr, listToken>>

\* onClose of EmailDetail, rendered for a selected email with full details:
\* setSelectedEmailId(null), then the effect
CloseEmail ==
  /\ app.selectedEmailId # Undefined
  /\ Has(app.emails, app.selectedEmailId)
  /\ Find(app.emails, app.selectedEmailId).hasFullDetails
  /\ app' = [app EXCEPT !.selectedEmailId = Undefined]
  /\ FetchBodyEffect(app')
  /\ UNCHANGED <<sf, gd, ca, fm, counters, leaked>>
  /\ UNCHANGED <<modal, hd, seenActive, ops, msgVars, polls, cr, listToken>>

\* fetchMessageDetails(session.token, selectedEmailId) returns
FbSettles ==
  /\ \E j \in 1..Len(fbs), d \in DetailResults :
       /\ fbs[j].pc = "await"
       /\ fbs' = [fbs EXCEPT ![j].pc = "fetched", ![j].details = d]
  /\ UNCHANGED <<sf, gd, ca, fm, counters, leaked>>
  /\ UNCHANGED <<app, modal, hd, seenActive, ops, msgVars, polls, cr, listToken>>

\* the details written over every entry
MergeAll(e, id, details) == [e EXCEPT !.body = details.body, !.hasFullDetails = TRUE]

\* e.id === selectedEmailId ? { ...e, ...details } : e
Merge(e, id, details) ==
  IF e.id = id
  THEN [e EXCEPT !.body = details.body, !.hasFullDetails = details.hasFullDetails]
  ELSE e

\* fetchBody resumes: if (details) setEmails(prev => prev.map(...))
FbResume ==
  /\ \E j \in 1..Len(fbs) :
       /\ fbs[j].pc = "fetched"
       /\ app' = IF fbs[j].details.isNull
                 THEN app
                 ELSE [app EXCEPT !.emails =
                         [l \in 1..Len(app.emails) |->
                            Merge(app.emails[l], fbs[j].id, fbs[j].details)]]
       /\ fbs' = RemoveAt(fbs, j)
  /\ UNCHANGED <<sf, gd, ca, fm, counters, leaked>>
  /\ UNCHANGED <<modal, hd, seenActive, ops, msgVars, polls, cr, listToken>>

\* App during its mount: handleCreateSession awaits createRealAccount(); the
\* upgrade dialog is open, has loaded its domains and holds a username
ReadyModal ==
  [ModalInit EXCEPT !.username = "alice",
                    !.domains = <<[domain |-> "a.com", isActive |-> TRUE,
                                   isPrivate |-> FALSE]>>,
                    !.selectedDomain = "a.com"]
InitInbox ==
  /\ sf = SfIdle
  /\ gd = GdIdle
  /\ ca = CaIdle
  /\ calls = [ep \in Endpoints |-> 0]
  /\ proxied = 0
  /\ waited = 0
  /\ fm = FmIdle
  /\ md = MdIdle
  /\ dm = DmIdle
  /\ polls = <<>>
  /\ fbs = <<>>
  /\ cr = [CrInit EXCEPT !.hcs = CrPending]
  /\ listToken = Undefined
  /\ leaked = {}
  /\ app = [AppInit EXCEPT !.isRefreshing = TRUE, !.isPremiumModalOpen = TRUE]
  /\ modal = ReadyModal
  /\ hd = [HdInit EXCEPT !.hcs = "await"]
  /\ seenActive = {"a.com"}
  /\ ops = [OpsInit EXCEPT !.creates = 1, !.loads = 1]

NextInbox ==
  \/ HcsPromiseSettles
  \/ HcsContinue
  \/ HandlePaymentAndCreate
  \/ HpCallsUpgrade
  \/ HpPromiseSettles
  \/ HpContinue
  \/ PollStart
  \/ PollSettles
  \/ PollResume
  \/ SelectEmail
  \/ CloseEmail
  \/ FbSettles
  \/ FbResume

SpecInbox == InitInbox /\ [][NextInbox]_vars

\* every awaited promise settles, every continuation of a settled promise
\* runs, the payment timer fires and the polling interval ticks; what the user
\* does is left to the user
FairInbox ==
  /\ WF_vars(HcsPromiseSettles)
  /\ WF_vars(HcsContinue)
  /\ WF_vars(HpCallsUpgrade)
  /\ WF_vars(HpPromiseSettles)
  /\ WF_vars(HpContinue)
  /\ WF_vars(PollStart)
  /\ WF_vars(PollSettles)
  /\ WF_vars(PollResume)
  /\ WF_vars(FbSettles)
  /\ WF_vars(FbResume)

SpecInboxFair == InitInbox /\ [][NextInbox]_vars /\ FairInbox

\* the mounted App with the buttons of its address card as well: new address
\* and extend
NextSession ==
  \/ HcsPromiseSettles
  \/ HcsContinue
  \/ NewAddress
  \/ ExtendSession
  \/ HandlePaymentAndCreate
  \/ HpCallsUpgrade
  \/ HpPromiseSettles
  \/ HpContinue
  \/ PollStart
  \/ PollSettles
  \/ PollResume
  \/ SelectEmail
  \/ CloseEmail
  \/ FbSettles
  \/ FbResume

SpecSession == InitInbox /\ [][NextSession]_vars

\* ================================================================ claims
CallerCustom == ca.pc # "idle" /\ ca.customUsername # Undefined
CallerRandom == ca.pc # "idle" /\ ca.customUsername = Undefined
CaDone == ca.pc \in {"returned", "failed"}
\* the creation loop was entered: a domain was resolved
DomainResolved == ca.domain # Undefined

\* C1: with a customUsername, never more than one creation attempt is made, and
\* exactly one once the call has ended with a domain resolved; a 422 answer to
\* it makes the call fail with username-unavailable, with no second attempt and
\* no token or metadata request.
C1_CustomNoRetry ==
  CallerCustom =>
    /\ calls["accounts"] <= 1
    /\ (CaDone /\ DomainResolved) => calls["accounts"] = 1
    /\ ca.status = 422 =>
         /\ ca.pc = "failed"
         /\ ca.error.kind = "UsernameUnavailable"
         /\ calls["accounts"] = 1
         /\ calls["token"] = 0
         /\ calls["me"] = 0

C1_Witness ==
  /\ CallerCustom
  /\ ca.pc = "failed"
  /\ ca.status = 422
  /\ ca.error.kind = "UsernameUnavailable"
  /\ calls["accounts"] = 1

\* C2: without a customUsername at most 5 creation attempts are made; when every
\* attempt has answered 422 (the loop counter i, which only a 422 advances,
\* equals the number of attempts) the call has made exactly 5 attempts and
\* fails with account-creation-exhausted.
C2_RandomBoundedRetry ==
  CallerRandom =>
    /\ calls["accounts"] <= RandomMaxRetries
    /\ (CaDone /\ calls["accounts"] >= 1 /\ ca.i = calls["accounts"]) =>
         /\ calls["accounts"] = RandomMaxRetries
         /\ ca.pc = "failed"
         /\ ca.error.kind = "Exhausted"
    /\ (ca.pc = "failed" /\ ca.error.kind = "Exhausted") =>
         calls["accounts"] = RandomMaxRetries

C2_Witness ==
  /\ CallerRandom
  /\ ca.pc = "failed"
  /\ ca.error.kind = "Exhausted"
  /\ ca.i = 5
  /\ calls["accounts"] = 5

\* the direct fetch has been answered and its outcome is sf.direct
DirectAnswered == sf.pc \in {"proxy", "ret", "thrown"}
FallbackTrigger(o) == o.status = 0 \/ o.status = 403 \/ o.status = 429

\* C3: smartFetch issues the proxy request if and only if the direct fetch threw
\* or answered 403 or 429; for any other direct response it issues exactly one
\* request and returns that response unchanged.
C3_ProxyIffBlocked ==
  DirectAnswered =>
    /\ (sf.pc = "proxy" \/ sf.n = 2) <=> FallbackTrigger(sf.direct)
    /\ ~FallbackTrigger(sf.direct) =>
         /\ sf.pc = "ret"
         /\ sf.n = 1
         /\ sf.res = sf.direct

C3_Witness ==
  /\ sf.pc = "ret"
  /\ sf.n = 1
  /\ sf.direct.status = 422
  /\ sf.res.status = 422

\* percent-decoding of the escapes EncodeChar produces
DecodeHex(a, b) ==
  CASE <<a, b>> = <<"3", "A">> -> ":"
    [] <<a, b>> = <<"2", "F">> -> "/"
    [] <<a, b>> = <<"3", "F">> -> "?"
    [] <<a, b>> = <<"3", "D">> -> "="
    [] <<a, b>> = <<"2", "6">> -> "&"
    [] <<a, b>> = <<"4", "0">> -> "@"
    [] OTHER -> "?"

RECURSIVE decodeURIComponent(_)
decodeURIComponent(s) ==
  IF s = <<>> THEN <<>>
  ELSE IF Head(s) = "%" /\ Len(s) >= 3
  THEN <<DecodeHex(s[2], s[3])>> \o decodeURIComponent(SubSeq(s, 4, Len(s)))
  ELSE <<Head(s)>> \o decodeURIComponent(Tail(s))

\* purl is the proxy endpoint, then url percent-encoded (no reserved character
\* left, decoding gives url back), then a cache-busting parameter &_cb=<time>
ProxiesTarget(purl, url) ==
  \E now \in Now :
    LET suffix == <<"&", "_", "c", "b", "=">> \o NumStr(now)
        cut == Len(purl) - Len(suffix)
        enc == SubSeq(purl, Len(PROXY_BASE) + 1, cut)
    IN /\ cut >= Len(PROXY_BASE)
       /\ SubSeq(purl, 1, Len(PROXY_BASE)) = PROXY_BASE
       /\ SubSeq(purl, cut + 1, Len(purl)) = suffix
       /\ \A j \in 1..Len(enc) : enc[j] \in Unreserved \cup {"%"}
       /\ decodeURIComponent(enc) = url

TotalCalls == calls["domainsA"] + calls["domainsB"] + calls["accounts"]
                + calls["token"] + calls["me"] + calls["messages"]
                + calls["message"] + calls["delete"]

\* C4: after a direct 403 or 429 smartFetch issues exactly one more request, to
\* the proxy endpoint with the original url percent-encoded and a cache-busting
\* parameter; the proxied response is returned as it is, whatever its status,
\* and no call issues more than 2 requests.
C4_SingleProxyFallback ==
  /\ sf.n <= 2
  /\ proxied <= TotalCalls
  /\ (sf.pc = "proxy" /\ sf.direct.status \in {403, 429}) =>
       /\ sf.n = 1
       /\ ProxiesTarget(sf.proxyUrl, sf.url)
  /\ (sf.pc \in {"ret", "thrown"} /\ sf.direct.status \in {403, 429}) =>
       /\ sf.n = 2
       /\ sf.res.status # 0 => sf.pc = "ret"

C4_Witness ==
  /\ sf.pc = "ret"
  /\ sf.n = 2
  /\ sf.direct.status = 429
  /\ sf.res.status = 403

\* C5: smartFetch throws exactly when the direct fetch triggered the fallback
\* (threw, or answered 403 or 429) and the proxied fetch threw; in every other
\* case it returns a Response.
C5_ThrowsOnlyIfBothFail ==
  sf.pc \in {"ret", "thrown"} =>
    /\ sf.pc = "thrown" <=> (FallbackTrigger(sf.direct) /\ sf.n = 2 /\ sf.res = Rejected)
    /\ sf.pc = "ret" => sf.res.status \in Statuses

C5_Witness ==
  /\ sf.pc = "thrown"
  /\ sf.direct.status = 403
  /\ sf.res = Rejected

\* C6: getAvailableDomains never throws: whatever its requests answer (both
\* routes rejecting, non-2xx, unparsable or malformed bodies) it returns a
\* sequence of Domain, the empty one when no strategy produced its result.
C6_DiscoveryNeverThrows ==
  /\ gd.pc # "thrown"
  /\ gd.pc = "done" =>
       /\ gd.result \in SeqsUpTo(Domain, MaxCatalog)
       /\ (gd.caught \/ gd.from = "none") => gd.result = <<>>

C6_Witness ==
  /\ gd.pc = "done"
  /\ gd.caught
  /\ gd.tried = 2
  /\ gd.result = <<>>

\* C7: whichever strategy the result was taken from, every entry of the result
\* has isActive = true and every active entry of that catalog answer is in the
\* result.
C7_OnlyActiveAllActive ==
  (gd.pc = "done" /\ gd.from \in {"A", "B"}) =>
    /\ \A j \in 1..Len(gd.result) : gd.result[j].isActive = TRUE
    /\ \A j \in 1..Len(gd.src) :
         gd.src[j].isActive => \E m \in 1..Len(gd.result) : gd.result[m] = gd.src[j]

C7_Witness ==
  /\ gd.pc = "done"
  /\ gd.from = "B"
  /\ Len(gd.src) = 2
  /\ Len(gd.result) = 1
  /\ \E j \in 1..2 : ~gd.src[j].isActive

\* C8: once Strategy 1 has yielded a non-empty active set, the call has returned
\* exactly that set and Strategy 2 is not requested.
C8_StrategyAShortCircuits ==
  (gd.pc # "idle" /\ Len(gd.activeA) > 0) =>
    /\ gd.pc = "done"
    /\ gd.from = "A"
    /\ gd.result = gd.activeA
    /\ gd.tried = 1

C8_Witness ==
  /\ gd.pc = "done"
  /\ gd.from = "A"
  /\ Len(gd.result) > 0
  /\ gd.tried = 1

\* C9: whenever Strategy 1 does not yield a non-empty active set (it failed,
\* answered non-2xx, or held no active domain), Strategy 2 has been requested
\* by the time the call returns.
C9_StrategyBAlwaysTried ==
  (gd.pc = "done" /\ gd.from # "A") => gd.tried = 2

NoCustomDomain == ca.pc # "idle" /\ ca.customDomain = Undefined
\* the Strategy 1 request of the discovery call in progress is not issued yet
DiscoveryPending == gd.pc = "A" /\ sf.pc = "direct"
\* discovery calls whose Strategy 1 request has been issued
DiscoveryCalls == calls["domainsA"]

C10_Inv ==
  NoCustomDomain =>
    /\ DiscoveryCalls <= DomainRetries
    /\ ca.pc = "domains" =>
         waited = RetryDelayMs * (IF DiscoveryPending THEN DiscoveryCalls
                                  ELSE DiscoveryCalls - 1)
    /\ ca.pc = "sleep" => waited = RetryDelayMs * DiscoveryCalls
    /\ DomainResolved =>
         /\ DiscoveryCalls >= 1
         /\ waited = RetryDelayMs * (DiscoveryCalls - 1)
    /\ (ca.pc = "failed" /\ ca.error.kind = "NoDomains")
         <=> (CaDone /\ waited = DomainRetries * RetryDelayMs)
    /\ ca.error.kind = "NoDomains" =>
         /\ DiscoveryCalls = DomainRetries
         /\ calls["accounts"] = 0

C10_Step ==
  (NoCustomDomain /\ ca.pc = "domains" /\ gd.pc = "done") =>
    IF Len(gd.result) > 0
    THEN /\ ca'.pc = "create"
         /\ \E j \in 1..Len(gd.result) : gd.result[j].domain = ca'.domain
    ELSE /\ ca'.pc = "sleep"
         /\ waited' = waited + RetryDelayMs

\* C10: with no customDomain, createRealAccount calls getAvailableDomains at most
\* 3 times, stops at the first non-empty result and picks its domain from it,
\* waits the fixed delay after every empty result before calling again, and
\* fails with no-domains-available exactly when all 3 calls returned empty,
\* having issued no account-creation request.
C10_DomainRetry == [](C10_Inv) /\ [][C10_Step]_vars

C10_Witness ==
  /\ NoCustomDomain
  /\ ca.pc = "returned"
  /\ DiscoveryCalls = 3
  /\ waited = 2 * RetryDelayMs
  /\ ca.domain \in DomainNames

\* the caller passed a customDomain
CustomDomainGiven == ca.pc # "idle" /\ ca.customDomain # Undefined
CatalogEndpoints == {"domainsA", "domainsB"}

\* C11: when a customDomain is supplied no catalog request is ever issued (no
\* discovery call, no wait), the domain used is the customDomain as passed, and
\* the address in the call's frame and in every creation request it sends is
\* <username>@<customDomain>.
C11_CustomDomainDirect ==
  CustomDomainGiven =>
    /\ calls["domainsA"] = 0
    /\ calls["domainsB"] = 0
    /\ waited = 0
    /\ gd = GdIdle
    /\ sf.ep \notin CatalogEndpoints
    /\ ca.domain = ca.customDomain
    /\ ca.address.domain = ca.customDomain
    /\ sf.ep = "accounts" => sf.opts.body[1].domain = ca.customDomain

\* an account made on a customDomain no catalog answer lists
C11_Witness ==
  /\ CustomDomainGiven
  /\ ca.pc = "returned"
  /\ ca.customDomain \notin DomainNames
  /\ ca.session.emailAddress.domain = ca.customDomain
  /\ calls["accounts"] >= 1
  /\ calls["domainsA"] = 0

\* C12: a creation response whose status is neither 2xx nor 422 makes the call
\* fail at once with the creation-failed error carrying that status: the
\* attempt it answered was the last one (even with retry slots left) and no
\* token or metadata request is issued.
C12_OtherStatusFailsWithStatus ==
  (ca.pc # "idle" /\ ca.status \notin {0, 422}) =>
    /\ ca.pc = "failed"
    /\ ca.error.kind = "CreationFailed"
    /\ ca.error.status = ca.status
    /\ calls["accounts"] = ca.i + 1
    /\ calls["token"] = 0
    /\ calls["me"] = 0

\* the token request has been answered with a non-2xx response
TokenAnsweredNotOk == ca.pc = "token" /\ sf.pc = "ret" /\ ~Ok(sf.res)

C13_Inv ==
  ca.error.kind = "LoginFailed" =>
    /\ ca.pc = "failed"
    /\ ca.accountCreated
    /\ calls["token"] = 1
    /\ calls["me"] = 0
    /\ ca.session = NoSession

C13_Step ==
  TokenAnsweredNotOk =>
    /\ ca'.pc = "failed"
    /\ ca'.error.kind = "LoginFailed"
    /\ ca'.session = NoSession
    /\ sf'.pc = "idle"

\* C13: a non-2xx answer to the token request makes the call fail with the
\* login-failed error; a call that failed so has issued no metadata request
\* and holds no Session.
C13_TokenFailureIsLoginFailed == [](C13_Inv) /\ [][C13_Step]_vars

C13_Witness ==
  /\ ca.pc = "failed"
  /\ ca.error.kind = "LoginFailed"
  /\ calls["token"] = 1
  /\ calls["me"] = 0
  /\ ca.session = NoSession

\* C14: in every Session the call returns, expiresAt is null exactly when a
\* custom username was supplied, isPremium is true exactly when one was
\* supplied, and without one expiresAt is createdAt plus 10 minutes.
C14_ExpiryPolicy ==
  ca.pc = "returned" =>
    /\ ca.session.createdAt \in Now
    /\ ca.session.expiresAt = NullDate <=> ca.customUsername # Undefined
    /\ ca.session.isPremium <=> ca.customUsername # Undefined
    /\ ca.customUsername = Undefined =>
         ca.session.expiresAt = ca.session.createdAt + 10 * 60 * 1000

C14_Witness ==
  /\ ca.pc = "returned"
  /\ ca.customUsername # Undefined
  /\ ca.session.expiresAt = NullDate
  /\ ca.session.isPremium

\* the error kinds createRealAccount throws itself
TaxonomyKinds ==
  {"NoDomains", "UsernameUnavailable", "Exhausted", "CreationFailed", "LoginFailed"}

\* C15: every failure of the call is one of the five error kinds it throws
\* itself, username-unavailable only with a custom username and
\* account-creation-exhausted only without one; no raw network or
\* body-parsing error reaches the caller.
C15_OnlyTaxonomyErrors ==
  ca.pc = "failed" =>
    /\ ca.error.kind \in TaxonomyKinds
    /\ ca.error.kind = "UsernameUnavailable" => ca.customUsername # Undefined
    /\ ca.error.kind = "Exhausted" => ca.customUsername = Undefined

\* the phases of one call, in order
Phase(ep) ==
  CASE ep \in CatalogEndpoints -> 1
    [] ep = "accounts" -> 2
    [] ep = "token" -> 3
    [] ep = "me" -> 4
\* a request to ep has been issued
Issued(ep) == calls[ep] > 0 \/ (sf.ep = ep /\ sf.pc # "idle")
\* a fetch of the createRealAccount call is awaited
Outstanding == ca.pc # "idle" /\ sf.pc \in {"direct", "proxy"}
\* this step enters smartFetch for the createRealAccount call
IssuesRequest == ca'.pc # "idle" /\ sf'.pc = "direct" /\ sf.pc # "direct"
AnsweredOk(ep) ==
  sf.ep = ep /\ sf.pc = "ret" /\ sf.res.status >= 200 /\ sf.res.status <= 299

C16_Inv ==
  /\ calls["token"] <= 1
  /\ calls["me"] <= 1
  /\ Outstanding =>
       /\ ca.pc = (IF sf.ep \in CatalogEndpoints THEN "domains"
                   ELSE IF sf.ep = "accounts" THEN "create" ELSE sf.ep)
       /\ \A e \in Endpoints : Issued(e) => Phase(e) <= Phase(sf.ep)

C16_Step ==
  /\ IssuesRequest =>
       /\ ~Outstanding
       /\ \A e \in Endpoints : Issued(e) => Phase(e) <= Phase(sf'.ep)
       /\ sf'.ep = "token" => AnsweredOk("accounts")
       /\ sf'.ep = "me" => AnsweredOk("token")
  /\ (ca.pc # "idle" /\ sf'.pc = "proxy") => (sf.pc = "direct" /\ sf'.ep = sf.ep)

\* C16: the requests of one call are issued in phase order (catalog, creation,
\* token, metadata): a request is issued only while none is outstanding and
\* only if no request of a later phase was issued before; the token request is
\* issued only on a 2xx creation response and the metadata request only on a
\* 2xx token response, each at most once.
C16_PhaseOrder == [](C16_Inv) /\ [][C16_Step]_vars

C16_Witness ==
  /\ sf.ep = "me"
  /\ sf.pc = "direct"
  /\ calls["domainsA"] >= 1
  /\ calls["domainsB"] >= 1
  /\ calls["accounts"] >= 2
  /\ calls["token"] = 1

\* C17: every Session the call returns carries an account identifier taken from
\* a 2xx answer to the metadata request; none is returned with its accountId
\* missing.
C17_SessionHasAccountId ==
  ca.pc = "returned" => ca.session.accountId \in AccountIds

\* a creation request is awaited
CreationInFlight == sf.ep = "accounts" /\ sf.pc \in {"direct", "proxy"}
\* the domain of the address the request in flight carries
RequestDomain == sf.opts.body[1].domain

C19_TokenNeverLogged == leaked \cap Tokens = {}

\* createRealAccount has failed holding a token, after a logged collision, and
\* its catch block has printed the error
C19_Witness ==
  /\ hd.hcs = "await"
  /\ ca.pc = "failed"
  /\ ca.token \in Tokens
  /\ ca.i >= 1
  /\ leaked = {}

\* the /messages request failed: smartFetch threw, the status is not 2xx, or
\* the body is not a JSON object with an array of well-formed entries
MessagesFailed ==
  \/ fm.out.status = 0
  \/ fm.out.status < 200
  \/ fm.out.status > 299
  \/ fm.out.body.kind # "object"
  \/ fm.out.body.memberKind # "array"
  \/ \E j \in 1..Len(fm.out.body.member) :
       \/ ~fm.out.body.member[j].from.present
       \/ /\ fm.out.body.member[j].from.name = ""
          /\ fm.out.body.member[j].from.address.user = Undefined

\* C20: fetchMessages never throws; once it has returned, a failed request
\* gave the empty sequence, a successful one gave one summary per entry of the
\* answer, in the answer's order, and every summary has hasFullDetails = false.
C20_ListNeverThrows ==
  /\ fm.pc \in {"idle", "await", "done"}
  /\ fm.pc = "done" =>
       /\ MessagesFailed => fm.result = <<>>
       /\ ~MessagesFailed =>
            /\ Len(fm.result) = Len(fm.out.body.member)
            /\ \A j \in 1..Len(fm.result) : fm.result[j].id = fm.out.body.member[j].id
       /\ \A j \in 1..Len(fm.result) : fm.result[j].hasFullDetails = FALSE

C20_Witness ==
  /\ fm.pc = "done"
  /\ fm.caught
  /\ fm.out.status = 200
  /\ fm.out.body.memberKind = "array"
  /\ Len(fm.out.body.member) = 2
  /\ fm.result = <<>>

\* the detail request failed: smartFetch threw, or the status is not 2xx
DetailFailed == md.out.status < 200 \/ md.out.status > 299

\* C21: once fetchMessageDetails has returned, a failed detail request (a
\* rejected fetch or a non-2xx answer such as 401 or 404) gave null, never an
\* object with hasFullDetails = true.
C21_DetailNullOnFailure ==
  (md.pc = "done" /\ DetailFailed) =>
    /\ md.result = Null
    /\ ~md.result.hasFullDetails

\* the delete request failed: smartFetch threw, or the status is not 2xx
DeleteFailed == dm.out.status < 200 \/ dm.out.status > 299

\* C22: deleteMessage never throws, and once it has returned its result is
\* false when the delete request failed (a rejected fetch or a non-2xx answer)
\* and true only when the provider answered 2xx.
C22_DeleteFalseOnFailure ==
  /\ dm.pc \in {"idle", "await", "done"}
  /\ dm.pc = "done" => (dm.result <=> ~DeleteFailed)

\* the creation request has been answered 422 through the proxy after the
\* direct request had registered the address itself
OwnCollision ==
  /\ ca.pc = "create"
  /\ sf.pc = "ret"
  /\ sf.res.status = 422
  /\ sf.reached

C26_Step ==
  OwnCollision =>
    /\ ca'.error.kind # "UsernameUnavailable"
    /\ ca'.i = ca.i

\* C26: when the address of a creation attempt became registered through the
\* attempt's own direct request, the call neither fails with
\* username-unavailable nor moves on to another username: no step treats a 422
\* that answers the re-issued request as a collision.
C26_NoSelfCollision == [][C26_Step]_vars

\* the creation request has been answered 2xx
CreationAnsweredOk ==
  /\ ca.pc = "create"
  /\ sf.pc = "ret"
  /\ sf.res.status >= 200
  /\ sf.res.status <= 299

C27_Inv ==
  /\ (ca.pc = "create" /\ sf.pc # "idle") => sf.opts.body = <<ca.address, ca.password>>
  /\ (ca.pc = "token" /\ sf.pc # "idle") => sf.opts.body = <<ca.address, ca.password>>
  /\ ca.pc = "returned" =>
       /\ ca.session.emailAddress = ca.address
       /\ ca.session.password = ca.password

C27_Step ==
  /\ CreationAnsweredOk =>
       /\ sf'.ep = "token"
       /\ sf'.opts.body = sf.opts.body
       /\ ca'.address = sf.opts.body[1]
       /\ ca'.password = sf.opts.body[2]
  /\ ca.pc \in {"token", "me"} =>
       /\ ca'.address = ca.address
       /\ ca'.password = ca.password

\* C27: the token request carries exactly the address and password of the
\* creation request that was answered 2xx, the frame keeps them until the call
\* ends, and the emailAddress and password of the returned Session are those
\* same values, never those of an earlier attempt that collided.
C27_CredentialsOfSuccessfulAttempt == [](C27_Inv) /\ [][C27_Step]_vars

\* a Session returned after at least one collision
C27_Witness ==
  /\ ca.pc = "returned"
  /\ ca.i >= 1
  /\ ca.session.emailAddress.user = RandNames[2]
  /\ ca.session.password = ca.password

\* createRealAccount has been called and has neither returned nor thrown
CaRunning == ca.pc \notin {"idle", "returned", "failed"}

\* the steps of a call in progress: a fetch completing, a timer firing, the
\* continuation of an await running
ServiceStep ==
  \/ SfDirect
  \/ SfProxy
  \/ GdAfterA
  \/ GdAfterB
  \/ CaAfterDomains
  \/ CaAfterSleep
  \/ CaAfterCreate
  \/ CaAfterToken
  \/ CaAfterMe

\* an upper bound on the steps a call still has to take, from its frames:
\* a smartFetch takes at most 2 steps, a getAvailableDomains at most 6, a
\* discovery round 8 with its two continuations, a creation attempt 3, the
\* token and metadata phases 3 each
SfLeft == CASE sf.pc = "direct" -> 2 [] sf.pc = "proxy" -> 1 [] OTHER -> 0
GdLeft == CASE gd.pc = "A" -> SfLeft + 4 [] gd.pc = "B" -> SfLeft + 1 [] OTHER -> 0
StepsLeft ==
  CASE ca.pc = "domains" -> GdLeft + 2 + (2 - ca.k) * 8 + 21
    [] ca.pc = "sleep" -> 1 + (2 - ca.k) * 8 + 21
    [] ca.pc = "create" -> SfLeft + 1 + (4 - ca.i) * 3 + 6
    [] ca.pc = "token" -> SfLeft + 4
    [] ca.pc = "me" -> SfLeft + 1
    [] OTHER -> 0

C28_Inv ==
  /\ calls["domainsA"] <= 3
  /\ calls["domainsB"] <= calls["domainsA"]
  /\ calls["accounts"] <= 5
  /\ calls["token"] <= 1
  /\ calls["me"] <= 1
  /\ proxied <= TotalCalls
  /\ TotalCalls + proxied <= 26
  /\ StepsLeft >= 0
  /\ CaRunning => ENABLED ServiceStep

C28_Step == CaRunning => StepsLeft' < StepsLeft

\* C28: every call of createRealAccount ends (it returns a Session or throws)
\* provided every HTTP request completes: while the call runs one of its steps
\* can always be taken, and every step strictly lowers a bound on the steps
\* left, which is never negative.  A call issues at most 3 Strategy 1 and 3
\* Strategy 2 catalog requests, 5 creation requests, 1 token request and 1
\* metadata request, each re-issued at most once through the proxy: at most 26
\* HTTP requests.
C28_TerminatesWithinBudget == [](C28_Inv) /\ [][C28_Step]_vars

\* a call that ended having issued 26 requests
C28_Witness ==
  /\ CaDone
  /\ calls["domainsA"] = 3
  /\ calls["accounts"] = 5
  /\ TotalCalls + proxied = 26

\* both callers of createRealAccount have an invocation in flight
BothInFlight == hd.hcs = "await" /\ hd.hp.pc = "await"
\* this step completes handleCreateSession / handlePremiumCreate
HcsCompletes == hd.hcs = "await" /\ hd'.hcs = "idle"
HpCompletes == hd.hp.pc = "await" /\ hd'.hp.pc = "idle"

C23_Inv ==
  BothInFlight =>
    /\ cr.hcs.pc = "pending" => ENABLED HcsPromiseSettles
    /\ cr.hcs.pc # "pending" => ENABLED HcsContinue
    /\ cr.hp.pc = "pending" => ENABLED HpPromiseSettles
    /\ cr.hp.pc # "pending" => ENABLED HpContinue

C23_Step ==
  /\ HcsCompletes =>
       /\ hd'.hp = hd.hp
       /\ cr'.hp = cr.hp
       /\ app'.session = IF cr.hcs.pc = "returned" THEN cr.hcs.session ELSE app.session
  /\ HpCompletes =>
       /\ hd'.hcs = hd.hcs
       /\ cr'.hcs = cr.hcs
       /\ app'.session = IF cr.hp.pc = "returned" THEN cr.hp.session ELSE app.session
  /\ cr'.hcs # cr.hcs => (cr'.hp = cr.hp /\ hd'.hp = hd.hp)
  /\ cr'.hp # cr.hp => (cr'.hcs = cr.hcs /\ hd'.hcs = hd.hcs)
  /\ app'.session # app.session => (HcsCompletes \/ HpCompletes)

\* C23: with an invocation of createRealAccount in flight for
\* handleCreateSession and one for handlePremiumCreate, each can always take
\* its next step, no step of one changes the promise or the frame of the
\* other, and the session changes only when one of them completes
\* successfully, to the Session that invocation returned, whatever the other
\* stored before: the last successful one to complete wins.
C23_LastWriterWins == [](C23_Inv) /\ [][C23_Step]_vars

\* the upgrade completed successfully first (it closed the dialog), then
\* handleCreateSession completed and replaced the premium session
C23_Witness ==
  /\ hd.hcs = "idle"
  /\ hd.hp.pc = "idle"
  /\ ops.upgrades = 1
  /\ ~app.isPremiumModalOpen
  /\ app.session.token # Undefined
  /\ ~app.session.isPremium

\* this step completes a poll
PollCompletes == Len(polls') < Len(polls)

C24_Step ==
  PollCompletes =>
    \E j \in 1..Len(polls) :
      /\ polls[j].pc = "fetched"
      /\ polls' = RemoveAt(polls, j)
      /\ LET fetched == polls[j].newMessages
             shown == app.emails
         IN app'.emails =
              IF \/ Len(fetched) # Len(shown)
                 \/ /\ Len(fetched) > 0
                    /\ Len(shown) > 0
                    /\ fetched[1].id # shown[1].id
              THEN fetched
              ELSE shown

\* C24: the step that completes a poll replaces the displayed list by the
\* fetched list if the two differ in length, or both are non-empty and their
\* first ids differ; otherwise it leaves the displayed list as it was, entry
\* by entry, hasFullDetails flags included.
C24_PollDiff == [][C24_Step]_vars

\* a poll has replaced the list, an entry has since received its details, and
\* another poll has fetched a list of the same length and first id that
\* differs from the displayed one
C24_Witness ==
  /\ listToken # Undefined
  /\ \E l \in 1..Len(app.emails) : app.emails[l].hasFullDetails
  /\ \E j \in 1..Len(polls) :
       /\ polls[j].pc = "fetched"
       /\ Len(polls[j].newMessages) = Len(app.emails)
       /\ polls[j].newMessages[1].id = app.emails[1].id
       /\ polls[j].newMessages # app.emails

\* this step completes a fetchBody
FetchBodyCompletes == Len(fbs') < Len(fbs)

C25_Step ==
  FetchBodyCompletes =>
    \E j \in 1..Len(fbs) :
      /\ fbs[j].pc = "fetched"
      /\ fbs' = RemoveAt(fbs, j)
      /\ fbs[j].details.isNull => app'.emails = app.emails
      /\ ~fbs[j].details.isNull =>
           /\ Len(app'.emails) = Len(app.emails)
           /\ \A l \in 1..Len(app.emails) :
                IF app.emails[l].id = fbs[j].id
                THEN app'.emails[l] =
                       [app.emails[l] EXCEPT !.body = fbs[j].details.body,
                                             !.hasFullDetails = TRUE]
                ELSE app'.emails[l] = app.emails[l]

\* C25: the step that completes a fetchBody whose detail fetch gave a non-null
\* result gives the fetched body and hasFullDetails = true to the list entry
\* whose id is the id the fetch was made for, and leaves every other entry,
\* the order and the length of the list as they were; with a null result the
\* list is unchanged.
C25_DetailsInPlace == [][C25_Step]_vars

\* a list of two entries of which the first alone has received its details
C25_Witness ==
  /\ Len(app.emails) = 2
  /\ app.emails[1].hasFullDetails
  /\ app.emails[1].body = "ab"
  /\ ~app.emails[2].hasFullDetails
  /\ app.emails[2].body = "hi"
  /\ fbs = <<>>

\* C29: whenever the displayed message list is not empty it was fetched with
\* the token of the session held now: a poll started under an earlier session
\* does not write its list once the session has been replaced.
C29_ListOfCurrentSession ==
  app.emails # <<>> => listToken = app.session.token

\* message id is selected and in the displayed list
SelectedPresent(id) == app.selectedEmailId = id /\ Has(app.emails, id)
\* its entry has hasFullDetails = true
HasFullDetails(id) == Has(app.emails, id) /\ Find(app.emails, id).hasFullDetails
\* no detail fetch has given null
DetailsSucceed == \A j \in 1..Len(fbs) : fbs[j].pc = "fetched" => ~fbs[j].details.isNull

C30_For(id) ==
  ([]DetailsSucceed /\ <>[]SelectedPresent(id)) => <>[]HasFullDetails(id)

\* C30: if every detail fetch succeeds and a message is, from some point on,
\* selected and in the displayed list for good, then from some point on its
\* entry has hasFullDetails = true for good, whatever the polls do meanwhile.
C30_SelectedGetsDetails == C30_For("m1") /\ C30_For("m2")

C31_Step ==
  \A j \in 1..Len(polls) :
    (polls[j].pc = "fetched" /\ polls[j].failed /\ polls' = RemoveAt(polls, j))
      => app'.emails = app.emails

\* C31: the step that completes a poll whose fetchMessages failed (network
\* error or non-2xx response) leaves the displayed message list as it was; a
\* non-empty inbox is never emptied by a failed poll.
C31_FailedPollKeepsList == [][C31_Step]_vars

\* no handleCreateSession in flight: the refresh indicator is off
C32_Inv == hd.hcs = "idle" => ~app.isRefreshing

C32_Step ==
  HcsCompletes =>
    /\ ~app'.isRefreshing
    /\ cr.hcs.pc = "failed" =>
         /\ app'.session = app.session
         /\ app'.emails = app.emails
         /\ app'.selectedEmailId = app.selectedEmailId
         /\ app'.error # NoError
         /\ app'.error = cr.hcs.error

\* C32: the step that completes a handleCreateSession whose createRealAccount
\* failed leaves the held session, the message list and the selected message
\* id as they were and sets the error to the one thrown; every step that
\* completes handleCreateSession, on success or failure, leaves isRefreshing
\* false, and it is false whenever no handleCreateSession is in flight.
C32_FailureKeepsState == [](C32_Inv) /\ [][C32_Step]_vars

\* the new-address button was used with a session held, a non-empty list and a
\* message selected, and its createRealAccount failed: all three are still there
C32_Witness ==
  /\ ops.renews = 1
  /\ hd.hcs = "idle"
  /\ app.error # NoError
  /\ ~app.isRefreshing
  /\ app.session # NoSession
  /\ app.emails # <<>>
  /\ app.selectedEmailId # Undefined

\* a session is held, and it is premium exactly if it never expires
C33_Inv ==
  app.session # NoSession =>
    (app.session.isPremium <=> app.session.expiresAt = NullDate)

\* this step is an invocation of extendSession
ExtendInvoked == ops'.extends # ops.extends

C33_Step ==
  ExtendInvoked =>
    IF app.session = NoSession \/ app.session.isPremium
    THEN app'.session = app.session
    ELSE /\ app'.session.expiresAt # NullDate
         /\ \E now \in Now :
              app'.session = [app.session EXCEPT !.expiresAt = now + ExpiryMs]

\* C33: in every state with a session, isPremium is true exactly if expiresAt
\* is null, whatever creations, upgrades and extendSession calls came before;
\* an extendSession step leaves a premium session (and no session) as it is
\* and gives a non-premium session an expiresAt of now + 10 minutes, not
\* null, changing nothing else of it.
C33_PremiumIffNoExpiry == [](C33_Inv) /\ [][C33_Step]_vars

\* after an upgrade and a new address, extendSession has moved the expiry of
\* the non-premium session past the one it was created with
C33_Witness ==
  /\ ops.upgrades = 1
  /\ ops.renews = 1
  /\ ops.extends = 1
  /\ app.session # NoSession
  /\ ~app.session.isPremium
  /\ app.session.expiresAt = app.session.createdAt + ExpiryMs + 1

====
